---- MODULE Spec2Model ----
(***************************************************************************)
(* The in-process cache engine of src/cache_manager.py                     *)
(* (EnhancedCacheManager): an ordered store with TTL expiration, LRU       *)
(* eviction under an entry-count and a memory budget, and namespace and    *)
(* tag indices.                                                            *)
(*                                                                         *)
(* Every public operation of the engine runs its body under the engine's   *)
(* re-entrant lock (with self._lock), so one operation is one action.      *)
(* time.time() is the variable now, advanced by Tick.                      *)
(* recent_operations (a bounded log that no operation reads) is left out.  *)
(***************************************************************************)
EXTENDS Integers, Sequences, FiniteSets, TLC

VARIABLES
    enabled,            \* self.enabled
    default_ttl,        \* self.default_ttl
    max_size,           \* self.max_size
    max_memory_bytes,   \* self.max_memory_bytes
    cache,              \* self._cache: OrderedDict, head = least recently used
    namespaces,         \* self._namespaces: defaultdict(set)
    tags,               \* self._tags: defaultdict(set)
    stats,              \* self.stats: CacheStatistics
    _stop_cleanup,      \* self._stop_cleanup
    enable_persistence, \* self.enable_persistence
    cleanup_interval,   \* self.cleanup_interval, in seconds
    disk,               \* the *.pkl files under self.persistence_path
    procs,              \* the threads beside the caller: position and locals
    lock,               \* the holder of self._lock
    world,              \* what lies outside the engine (loaders, writers)
    now,                \* time.time()
    last,               \* the last call made on the engine and what it returned
    calls               \* the number of calls made on the engine so far

config == <<enabled, default_ttl, max_size, max_memory_bytes, enable_persistence,
            cleanup_interval>>
\* threads, lock and collaborators, which the specifications of a single
\* caller leave alone
offstage == <<procs, lock, world>>
vars == <<enabled, default_ttl, max_size, max_memory_bytes,
          cache, namespaces, tags, stats, _stop_cleanup, now, last, calls,
          enable_persistence, cleanup_interval, disk, procs, lock, world>>

(***************************************************************************)
(* Bounds of the model.                                                    *)
(***************************************************************************)
MaxTime == 3        \* the clock runs from StartTime to MaxTime
MaxCalls == 3       \* calls made on one engine under Spec
FarFuture == 6      \* the latest time at which an entry is looked up again
MaxSweeperTime == 9 \* the clock of SweeperSpec runs from StartTime to here

StartTime == 1
MaxRefreshTime == 4
MaxRuns == 2
MaxGets == 4
MaxRateSets == 1

Keys == {"x", "y"}
Namespaces == {"n1", "n2"}
Values == {"v1", "v2", "big"}
TagNames == {"t1", "t2"}
\* entries are stored untagged, with one tag or with two
TagSets == {{}, {"t2"}, {"t1", "t2"}}
Patterns == {"x", "n1"}
EnabledChoices == {TRUE, FALSE}
MaxSizeChoices == {1, 2}
MemoryMbChoices == {1}
DefaultTtlChoices == {1}
ExtendChoices == {1}
\* seconds between two sweeps: below and above the join timeout of stop()
CleanupIntervalChoices == {2, 7}
\* the max_size arguments an engine is constructed with in LoopSpec
MaxSizeArgs == {-1, 0, 1, 2}

\* CACHE_CLEANUP_INTERVAL of config.py, the default of cleanup_interval
CACHE_CLEANUP_INTERVAL == 300

\* self._cleanup_task.join(timeout=5)
JoinTimeout == 5

(***************************************************************************)
(* Optional[...] values: None is the empty set, a present value x is {x}.  *)
(***************************************************************************)
None == {}
Some(x) == {x}
TheVal(o) == CHOOSE x \in o : TRUE

TtlChoices == {None, Some(0)}
NamespaceChoices == {None} \cup {Some(n) : n \in Namespaces}

\* get's default argument (default: Any = None)
DefaultVal == "None"

\* 1024 * 1024 of __init__
BytesPerMb == 1048576

\* len(pickle.dumps(value)) for the values of the model
PickleLen(value) ==
    CASE value = "v1" -> 400000
      [] value = "v2" -> 700000
      [] value = "big" -> 1048577
      [] value = "None" -> 4

(***************************************************************************)
(* CacheEntry and CacheStatistics                                          *)
(***************************************************************************)
CacheEntry(key, value, created_at, expires_at, size_bytes, namespace, tgs, t) ==
    [key |-> key, value |-> value, created_at |-> created_at,
     expires_at |-> expires_at, hits |-> 0, last_accessed |-> t,
     size_bytes |-> size_bytes, namespace |-> namespace, tags |-> tgs]

\* is_expired without "if self.expires_at is None: return False"
is_expired_without_none_check(entry, t) ==
    t > (IF entry.expires_at = None THEN 0 ELSE TheVal(entry.expires_at))

is_expired(entry, t) ==
    IF entry.expires_at = None THEN FALSE
    ELSE t > TheVal(entry.expires_at)

\* remaining = self.expires_at - time.time(); return max(0, remaining)
get_ttl_remaining(entry, t) ==
    IF entry.expires_at = None THEN None
    ELSE Some(IF TheVal(entry.expires_at) - t > 0
              THEN TheVal(entry.expires_at) - t ELSE 0)

entry_touch(entry, t) ==
    [entry EXCEPT !.hits = @ + 1, !.last_accessed = t]

CacheStatistics ==
    [hits |-> 0, misses |-> 0, sets |-> 0, deletes |-> 0,
     expirations |-> 0, evictions |-> 0, total_size_bytes |-> 0]

\* a float as the exact fraction num / den
Fraction(num, den) == [num |-> num, den |-> den]

\* get_hit_rate giving the share of the misses
get_hit_rate_of_misses(st) ==
    IF st.hits + st.misses = 0 THEN Fraction(0, 1)
    ELSE Fraction(st.misses * 100, st.hits + st.misses)

\* total = self.hits + self.misses; 0.0 if total == 0;
\* (self.hits / total) * 100
get_hit_rate(st) ==
    LET total == st.hits + st.misses IN
    IF total = 0 THEN Fraction(0, 1)
    ELSE LET quotient == Fraction(st.hits, total) IN
         Fraction(quotient.num * 100, quotient.den)

(***************************************************************************)
(* OrderedDict and defaultdict                                             *)
(***************************************************************************)
CacheKeys(c) == {c[i].key : i \in 1..Len(c)}
IndexOf(c, k) == CHOOSE i \in 1..Len(c) : c[i].key = k
CacheGet(c, k) == c[IndexOf(c, k)]
DelKey(c, k) == SelectSeq(c, LAMBDA e : e.key # k)
MoveToEnd(c, k) == Append(DelKey(c, k), CacheGet(c, k))
Replace(c, k, e) == [i \in 1..Len(c) |-> IF c[i].key = k THEN e ELSE c[i]]

EmptyDict == [k \in {} |-> {}]
\* the dict after d[k] was evaluated on a defaultdict(set)
DefaultDictTouch(d, k) == IF k \in DOMAIN d THEN d ELSE d @@ (k :> {})
DictGet(d, k) == IF k \in DOMAIN d THEN d[k] ELSE {}
DictDel(d, k) == [j \in DOMAIN d \ {k} |-> d[j]]

\* the snapshot of the mutable engine state an operation works on
Engine ==
    [cache |-> cache, namespaces |-> namespaces, tags |-> tags, stats |-> stats,
     disk |-> disk]

\* hashlib.md5(key.encode()).hexdigest(), taken to be free of collisions
_hash_key(key) == "md5(" \o key \o ")"

\* the persistence directory: its files, and whether I/O on it fails now
Directory(files, failing) == [files |-> files, failing |-> failing]

\* the file written holds the entry as it is at that moment; an exception
\* of the I/O is logged and swallowed
_persist_entry(d, entry) ==
    IF d.failing THEN d
    ELSE [d EXCEPT !.files =
             [f \in DOMAIN d.files \cup {_hash_key(entry.key)} |->
                 IF f = _hash_key(entry.key) THEN entry ELSE d.files[f]]]

\* if filepath.exists(): filepath.unlink()
_delete_persisted_entry(d, key) ==
    IF d.failing THEN d
    ELSE [d EXCEPT !.files = DictDel(d.files, _hash_key(key))]

RECURSIVE _save_all(_, _)
\* for entry in self._cache.values(): self._persist_entry(entry)
_save_all(d, c) ==
    IF c = <<>> THEN d ELSE _save_all(_persist_entry(d, Head(c)), Tail(c))

\* the full key built from the key alone
_make_key_without_namespace(key, namespace) == ":" \o key

_make_key(key, namespace) == namespace \o ":" \o key

\* for tag in entry.tags: if key in self._tags[tag]: self._tags[tag].remove(key)
DiscardFromTags(tg, tgs, key) ==
    [t \in DOMAIN tg \cup tgs |->
        IF t \in tgs THEN DictGet(tg, t) \ {key} ELSE tg[t]]

\* if key in self._namespaces[ns]: self._namespaces[ns].remove(key)
DiscardFromNamespace(nsd, ns, key) ==
    [DefaultDictTouch(nsd, ns) EXCEPT ![ns] = @ \ {key}]

\* _remove_entry without "self.stats.total_size_bytes -= entry.size_bytes"
_remove_entry_keeps_size(s, key) ==
    IF key \notin CacheKeys(s.cache) THEN s
    ELSE LET entry == CacheGet(s.cache, key) IN
         [cache |-> DelKey(s.cache, key),
          namespaces |-> DiscardFromNamespace(s.namespaces, entry.namespace, key),
          tags |-> DiscardFromTags(s.tags, entry.tags, key),
          stats |-> s.stats,
          disk |-> IF enable_persistence
                   THEN _delete_persisted_entry(s.disk, key) ELSE s.disk]

_remove_entry(s, key) ==
    IF key \notin CacheKeys(s.cache) THEN s
    ELSE LET entry == CacheGet(s.cache, key) IN
         [cache |-> DelKey(s.cache, key),
          namespaces |-> DiscardFromNamespace(s.namespaces, entry.namespace, key),
          tags |-> DiscardFromTags(s.tags, entry.tags, key),
          stats |-> [s.stats EXCEPT !.total_size_bytes = @ - entry.size_bytes],
          disk |-> IF enable_persistence
                   THEN _delete_persisted_entry(s.disk, key) ELSE s.disk]

\* _evict_lru without the loop over entry.tags
_evict_lru_keeps_tags(s) ==
    IF s.cache = <<>> THEN s
    ELSE LET entry == Head(s.cache) IN
         [cache |-> Tail(s.cache),
          namespaces |-> DiscardFromNamespace(s.namespaces, entry.namespace, entry.key),
          tags |-> s.tags,
          stats |-> [s.stats EXCEPT !.total_size_bytes = @ - entry.size_bytes,
                                    !.evictions = @ + 1],
          disk |-> s.disk]

\* the engine after _evict_lru(); the call returns FALSE iff s.cache is empty
_evict_lru(s) ==
    IF s.cache = <<>> THEN s
    ELSE LET entry == Head(s.cache) IN
         [cache |-> Tail(s.cache),
          namespaces |-> DiscardFromNamespace(s.namespaces, entry.namespace, entry.key),
          tags |-> DiscardFromTags(s.tags, entry.tags, entry.key),
          stats |-> [s.stats EXCEPT !.total_size_bytes = @ - entry.size_bytes,
                                    !.evictions = @ + 1],
          disk |-> s.disk]

\* the entry-count loop with ">" for ">="
RECURSIVE EvictWhileOverFull(_)
EvictWhileOverFull(s) ==
    IF Len(s.cache) > max_size THEN EvictWhileOverFull(_evict_lru(s)) ELSE s

\* while len(self._cache) >= self.max_size: self._evict_lru()
\* (entered only with max_size >= 1, see set)
RECURSIVE EvictWhileFull(_)
EvictWhileFull(s) ==
    IF Len(s.cache) >= max_size THEN EvictWhileFull(_evict_lru(s)) ELSE s

\* the memory loop comparing total_size_bytes alone with the budget
RECURSIVE EvictWhileTotalOverBudget(_, _)
EvictWhileTotalOverBudget(s, size_bytes) ==
    IF s.stats.total_size_bytes > max_memory_bytes
    THEN IF s.cache = <<>> THEN s
         ELSE EvictWhileTotalOverBudget(_evict_lru(s), size_bytes)
    ELSE s

\* while total_size_bytes + size_bytes > max_memory_bytes:
\*     if not self._evict_lru(): break
RECURSIVE EvictWhileOverBudget(_, _)
EvictWhileOverBudget(s, size_bytes) ==
    IF s.stats.total_size_bytes + size_bytes > max_memory_bytes
    THEN IF s.cache = <<>> THEN s
         ELSE EvictWhileOverBudget(_evict_lru(s), size_bytes)
    ELSE s

RECURSIVE RemoveAll(_, _)
\* for key in keys: self._remove_entry(key)
RemoveAll(s, keys) ==
    IF keys = {} THEN s
    ELSE LET k == CHOOSE k \in keys : TRUE IN
         RemoveAll(_remove_entry(s, k), keys \ {k})

Call(op, ret) ==
    [op |-> op, ret |-> ret]

(***************************************************************************)
(* Core operations.  Each operator gives the engine after the call (st)    *)
(* and the value returned (ret).                                           *)
(***************************************************************************)
\* get looking the key up without its namespace (namespace left at "default")
get_op_ignores_namespace(s, key, namespace, t) ==
    LET full_key == _make_key(key, "default") IN
    IF ~enabled THEN [st |-> s, ret |-> DefaultVal]
    ELSE IF full_key \notin CacheKeys(s.cache)
    THEN [st |-> [s EXCEPT !.stats.misses = @ + 1], ret |-> DefaultVal]
    ELSE LET entry == CacheGet(s.cache, full_key) IN
         IF is_expired(entry, t)
         THEN [st |-> [_remove_entry(s, full_key) EXCEPT
                          !.stats.misses = @ + 1, !.stats.expirations = @ + 1],
               ret |-> DefaultVal]
         ELSE [st |-> [s EXCEPT
                          !.cache = MoveToEnd(Replace(s.cache, full_key,
                                                      entry_touch(entry, t)), full_key),
                          !.stats.hits = @ + 1],
               ret |-> entry.value]

\* get without "self.stats.expirations += 1"
get_op_expiry_uncounted(s, key, namespace, t) ==
    LET full_key == _make_key(key, namespace) IN
    IF ~enabled THEN [st |-> s, ret |-> DefaultVal]
    ELSE IF full_key \notin CacheKeys(s.cache)
    THEN [st |-> [s EXCEPT !.stats.misses = @ + 1], ret |-> DefaultVal]
    ELSE LET entry == CacheGet(s.cache, full_key) IN
         IF is_expired(entry, t)
         THEN [st |-> [_remove_entry(s, full_key) EXCEPT !.stats.misses = @ + 1],
               ret |-> DefaultVal]
         ELSE [st |-> [s EXCEPT
                          !.cache = MoveToEnd(Replace(s.cache, full_key,
                                                      entry_touch(entry, t)), full_key),
                          !.stats.hits = @ + 1],
               ret |-> entry.value]

\* get without "self._cache.move_to_end(full_key)"
get_op_keeps_position(s, key, namespace, t) ==
    LET full_key == _make_key(key, namespace) IN
    IF ~enabled THEN [st |-> s, ret |-> DefaultVal]
    ELSE IF full_key \notin CacheKeys(s.cache)
    THEN [st |-> [s EXCEPT !.stats.misses = @ + 1], ret |-> DefaultVal]
    ELSE LET entry == CacheGet(s.cache, full_key) IN
         IF is_expired(entry, t)
         THEN [st |-> [_remove_entry(s, full_key) EXCEPT
                          !.stats.misses = @ + 1, !.stats.expirations = @ + 1],
               ret |-> DefaultVal]
         ELSE [st |-> [s EXCEPT
                          !.cache = Replace(s.cache, full_key, entry_touch(entry, t)),
                          !.stats.hits = @ + 1],
               ret |-> entry.value]

\* get without "if not self.enabled: return default"
get_op_without_enabled_check(s, key, namespace, t) ==
    LET full_key == _make_key(key, namespace) IN
    IF full_key \notin CacheKeys(s.cache)
    THEN [st |-> [s EXCEPT !.stats.misses = @ + 1], ret |-> DefaultVal]
    ELSE LET entry == CacheGet(s.cache, full_key) IN
         IF is_expired(entry, t)
         THEN [st |-> [_remove_entry(s, full_key) EXCEPT
                          !.stats.misses = @ + 1, !.stats.expirations = @ + 1],
               ret |-> DefaultVal]
         ELSE [st |-> [s EXCEPT
                          !.cache = MoveToEnd(Replace(s.cache, full_key,
                                                      entry_touch(entry, t)), full_key),
                          !.stats.hits = @ + 1],
               ret |-> entry.value]

get_op(s, key, namespace, t) ==
    LET full_key == _make_key(key, namespace) IN
    IF ~enabled THEN [st |-> s, ret |-> DefaultVal]
    ELSE IF full_key \notin CacheKeys(s.cache)
    THEN [st |-> [s EXCEPT !.stats.misses = @ + 1], ret |-> DefaultVal]
    ELSE LET entry == CacheGet(s.cache, full_key) IN
         IF is_expired(entry, t)
         THEN [st |-> [_remove_entry(s, full_key) EXCEPT
                          !.stats.misses = @ + 1, !.stats.expirations = @ + 1],
               ret |-> DefaultVal]
         ELSE [st |-> [s EXCEPT
                          !.cache = MoveToEnd(Replace(s.cache, full_key,
                                                      entry_touch(entry, t)), full_key),
                          !.stats.hits = @ + 1],
               ret |-> entry.value]

\* set making its size check after the eviction loops
set_op_late_size_check(s, key, value, ttl, namespace, tgs, t) ==
    LET full_key == _make_key(key, namespace)
        size_bytes == PickleLen(value)
    IN
    IF ~enabled THEN [st |-> s, ret |-> FALSE]
    ELSE LET s1 == EvictWhileFull(s)
             s2 == EvictWhileOverBudget(s1, size_bytes)
             eff_ttl == IF ttl = None THEN default_ttl ELSE TheVal(ttl)
             expires_at == IF eff_ttl > 0 THEN Some(t + eff_ttl) ELSE None
             entry == CacheEntry(full_key, value, t, expires_at, size_bytes,
                                 namespace, tgs, t)
             s3 == IF full_key \in CacheKeys(s2.cache)
                   THEN _remove_entry(s2, full_key) ELSE s2
             ns1 == DefaultDictTouch(s3.namespaces, namespace)
         IN
         IF size_bytes > max_memory_bytes THEN [st |-> s2, ret |-> FALSE]
         ELSE
         [st |-> [cache |-> Append(s3.cache, entry),
                  namespaces |-> [ns1 EXCEPT ![namespace] = @ \cup {full_key}],
                  tags |-> [tg \in DOMAIN s3.tags \cup tgs |->
                              IF tg \in tgs THEN DictGet(s3.tags, tg) \cup {full_key}
                              ELSE s3.tags[tg]],
                  stats |-> [s3.stats EXCEPT !.total_size_bytes = @ + size_bytes,
                                             !.sets = @ + 1],
                  disk |-> IF enable_persistence
                           THEN _persist_entry(s3.disk, entry) ELSE s3.disk],
          ret |-> TRUE]

\* set assigning self._cache[full_key] without removing the old entry first
set_op_overwrites_in_place(s, key, value, ttl, namespace, tgs, t) ==
    LET full_key == _make_key(key, namespace)
        size_bytes == PickleLen(value)
    IN
    IF ~enabled THEN [st |-> s, ret |-> FALSE]
    ELSE IF size_bytes > max_memory_bytes THEN [st |-> s, ret |-> FALSE]
    ELSE LET s1 == EvictWhileFull(s)
             s2 == EvictWhileOverBudget(s1, size_bytes)
             eff_ttl == IF ttl = None THEN default_ttl ELSE TheVal(ttl)
             expires_at == IF eff_ttl > 0 THEN Some(t + eff_ttl) ELSE None
             entry == CacheEntry(full_key, value, t, expires_at, size_bytes,
                                 namespace, tgs, t)
             ns1 == DefaultDictTouch(s2.namespaces, namespace)
         IN
         [st |-> [cache |-> IF full_key \in CacheKeys(s2.cache)
                            THEN Replace(s2.cache, full_key, entry)
                            ELSE Append(s2.cache, entry),
                  namespaces |-> [ns1 EXCEPT ![namespace] = @ \cup {full_key}],
                  tags |-> [tg \in DOMAIN s2.tags \cup tgs |->
                              IF tg \in tgs THEN DictGet(s2.tags, tg) \cup {full_key}
                              ELSE s2.tags[tg]],
                  stats |-> [s2.stats EXCEPT !.total_size_bytes = @ + size_bytes,
                                             !.sets = @ + 1],
                  disk |-> IF enable_persistence
                           THEN _persist_entry(s2.disk, entry) ELSE s2.disk],
          ret |-> TRUE]

\* set that leaves a stored key as it is (setdefault)
set_op_keeps_existing(s, key, value, ttl, namespace, tgs, t) ==
    IF enabled /\ _make_key(key, namespace) \in CacheKeys(s.cache)
    THEN [st |-> s, ret |-> TRUE]
    ELSE set_op_overwrites_in_place(s, key, value, ttl, namespace, tgs, t)

set_op(s, key, value, ttl, namespace, tgs, t) ==
    LET full_key == _make_key(key, namespace)
        size_bytes == PickleLen(value)
    IN
    IF ~enabled THEN [st |-> s, ret |-> FALSE]
    ELSE IF size_bytes > max_memory_bytes THEN [st |-> s, ret |-> FALSE]
    ELSE LET s1 == EvictWhileFull(s)
             s2 == EvictWhileOverBudget(s1, size_bytes)
             eff_ttl == IF ttl = None THEN default_ttl ELSE TheVal(ttl)
             expires_at == IF eff_ttl > 0 THEN Some(t + eff_ttl) ELSE None
             entry == CacheEntry(full_key, value, t, expires_at, size_bytes,
                                 namespace, tgs, t)
             s3 == IF full_key \in CacheKeys(s2.cache)
                   THEN _remove_entry(s2, full_key) ELSE s2
             ns1 == DefaultDictTouch(s3.namespaces, namespace)
         IN
         [st |-> [cache |-> Append(s3.cache, entry),
                  namespaces |-> [ns1 EXCEPT ![namespace] = @ \cup {full_key}],
                  tags |-> [tg \in DOMAIN s3.tags \cup tgs |->
                              IF tg \in tgs THEN DictGet(s3.tags, tg) \cup {full_key}
                              ELSE s3.tags[tg]],
                  stats |-> [s3.stats EXCEPT !.total_size_bytes = @ + size_bytes,
                                             !.sets = @ + 1],
                  disk |-> IF enable_persistence
                           THEN _persist_entry(s3.disk, entry) ELSE s3.disk],
          ret |-> TRUE]

\* delete counting the call whether or not the key was there
delete_op_counts_absent(s, key, namespace) ==
    LET full_key == _make_key(key, namespace) IN
    IF ~enabled THEN [st |-> s, ret |-> FALSE]
    ELSE IF full_key \in CacheKeys(s.cache)
    THEN [st |-> [_remove_entry(s, full_key) EXCEPT !.stats.deletes = @ + 1],
          ret |-> TRUE]
    ELSE [st |-> [s EXCEPT !.stats.deletes = @ + 1], ret |-> FALSE]

\* delete that gives up, uncounted, when the durable delete fails
delete_op_stops_on_disk_failure(s, key, namespace) ==
    LET full_key == _make_key(key, namespace) IN
    IF ~enabled THEN [st |-> s, ret |-> FALSE]
    ELSE IF full_key \in CacheKeys(s.cache)
    THEN IF enable_persistence /\ s.disk.failing
         THEN [st |-> _remove_entry(s, full_key), ret |-> FALSE]
         ELSE [st |-> [_remove_entry(s, full_key) EXCEPT !.stats.deletes = @ + 1],
               ret |-> TRUE]
    ELSE [st |-> s, ret |-> FALSE]

delete_op(s, key, namespace) ==
    LET full_key == _make_key(key, namespace) IN
    IF ~enabled THEN [st |-> s, ret |-> FALSE]
    ELSE IF full_key \in CacheKeys(s.cache)
    THEN [st |-> [_remove_entry(s, full_key) EXCEPT !.stats.deletes = @ + 1],
          ret |-> TRUE]
    ELSE [st |-> s, ret |-> FALSE]

\* exists without the removal of the expired entry
exists_op_keeps_expired(s, key, namespace, t) ==
    LET full_key == _make_key(key, namespace) IN
    IF ~enabled THEN [st |-> s, ret |-> FALSE]
    ELSE IF full_key \notin CacheKeys(s.cache) THEN [st |-> s, ret |-> FALSE]
    ELSE IF is_expired(CacheGet(s.cache, full_key), t)
    THEN [st |-> s, ret |-> FALSE]
    ELSE [st |-> s, ret |-> TRUE]

exists_op(s, key, namespace, t) ==
    LET full_key == _make_key(key, namespace) IN
    IF ~enabled THEN [st |-> s, ret |-> FALSE]
    ELSE IF full_key \notin CacheKeys(s.cache) THEN [st |-> s, ret |-> FALSE]
    ELSE IF is_expired(CacheGet(s.cache, full_key), t)
    THEN [st |-> _remove_entry(s, full_key), ret |-> FALSE]
    ELSE [st |-> s, ret |-> TRUE]

\* clear starting the hit rate afresh when a namespace is cleared
clear_op_resets_hit_rate(s, namespace) ==
    IF ~enabled THEN [st |-> s, ret |-> 0]
    ELSE IF namespace = None
    THEN [st |-> [cache |-> <<>>, namespaces |-> EmptyDict, tags |-> EmptyDict,
                  stats |-> [s.stats EXCEPT !.total_size_bytes = 0],
                  disk |-> s.disk],
          ret |-> Len(s.cache)]
    ELSE LET keys_to_remove == DictGet(s.namespaces, TheVal(namespace)) IN
         [st |-> [RemoveAll(s, keys_to_remove) EXCEPT !.stats.hits = 0,
                                                      !.stats.misses = 0],
          ret |-> Cardinality(keys_to_remove)]

\* clear replacing self.stats by a fresh CacheStatistics on a full clear
clear_op_resets_stats(s, namespace) ==
    IF ~enabled THEN [st |-> s, ret |-> 0]
    ELSE IF namespace = None
    THEN [st |-> [cache |-> <<>>, namespaces |-> EmptyDict, tags |-> EmptyDict,
                  stats |-> CacheStatistics,
                  disk |-> s.disk],
          ret |-> Len(s.cache)]
    ELSE LET keys_to_remove == DictGet(s.namespaces, TheVal(namespace)) IN
         [st |-> RemoveAll(s, keys_to_remove), ret |-> Cardinality(keys_to_remove)]

\* namespace is None (clear everything) or Some(n)
clear_op(s, namespace) ==
    IF ~enabled THEN [st |-> s, ret |-> 0]
    ELSE IF namespace = None
    THEN [st |-> [cache |-> <<>>, namespaces |-> EmptyDict, tags |-> EmptyDict,
                  stats |-> [s.stats EXCEPT !.total_size_bytes = 0],
                  disk |-> s.disk],
          ret |-> Len(s.cache)]
    ELSE LET keys_to_remove == DictGet(s.namespaces, TheVal(namespace)) IN
         [st |-> RemoveAll(s, keys_to_remove), ret |-> Cardinality(keys_to_remove)]

\* invalidate_by_tag without "del self._tags[tag]"
invalidate_by_tag_op_keeps_bucket(s, tag) ==
    LET keys_to_remove == DictGet(s.tags, tag)
    IN [st |-> RemoveAll(s, keys_to_remove), ret |-> Cardinality(keys_to_remove)]

invalidate_by_tag_op(s, tag) ==
    LET keys_to_remove == DictGet(s.tags, tag)
        s1 == RemoveAll(s, keys_to_remove)
    IN [st |-> [s1 EXCEPT !.tags = DictDel(s1.tags, tag)],
        ret |-> Cardinality(keys_to_remove)]

\* fnmatch.fnmatch(key, f"*{pattern}*") for a pattern without wildcard characters
fnmatch_contains(key, pattern) ==
    \E i \in 1..(Len(key) - Len(pattern) + 1) :
        SubSeq(key, i, i + Len(pattern) - 1) = pattern

\* invalidate_by_pattern that checks the keys of every namespace
invalidate_by_pattern_op_all_namespaces(s, pattern, namespace) ==
    LET keys_to_remove == {k \in CacheKeys(s.cache) : fnmatch_contains(k, pattern)}
    IN [st |-> RemoveAll(s, keys_to_remove), ret |-> Cardinality(keys_to_remove)]

invalidate_by_pattern_op(s, pattern, namespace) ==
    LET keys_to_check == DictGet(s.namespaces, namespace)
        keys_to_remove == {k \in keys_to_check : fnmatch_contains(k, pattern)}
    IN [st |-> RemoveAll(s, keys_to_remove), ret |-> Cardinality(keys_to_remove)]

\* touch without "self._cache.move_to_end(full_key)"
touch_op_keeps_position(s, key, namespace, t) ==
    LET full_key == _make_key(key, namespace) IN
    IF full_key \in CacheKeys(s.cache) /\ ~is_expired(CacheGet(s.cache, full_key), t)
    THEN [st |-> [s EXCEPT !.cache =
                     Replace(s.cache, full_key,
                             entry_touch(CacheGet(s.cache, full_key), t))],
          ret |-> TRUE]
    ELSE [st |-> s, ret |-> FALSE]

\* touch counting a cache hit in the statistics
touch_op_counts_hit(s, key, namespace, t) ==
    LET full_key == _make_key(key, namespace) IN
    IF full_key \in CacheKeys(s.cache) /\ ~is_expired(CacheGet(s.cache, full_key), t)
    THEN [st |-> [s EXCEPT !.cache =
                     MoveToEnd(Replace(s.cache, full_key,
                                       entry_touch(CacheGet(s.cache, full_key), t)),
                               full_key),
                     !.stats.hits = @ + 1],
          ret |-> TRUE]
    ELSE [st |-> s, ret |-> FALSE]

touch_op(s, key, namespace, t) ==
    LET full_key == _make_key(key, namespace) IN
    IF full_key \in CacheKeys(s.cache) /\ ~is_expired(CacheGet(s.cache, full_key), t)
    THEN [st |-> [s EXCEPT !.cache =
                     MoveToEnd(Replace(s.cache, full_key,
                                       entry_touch(CacheGet(s.cache, full_key), t)),
                               full_key)],
          ret |-> TRUE]
    ELSE [st |-> s, ret |-> FALSE]

\* extend_ttl without "and not entry.is_expired()"
extend_ttl_op_revives_expired(s, key, additional_seconds, namespace, t) ==
    LET full_key == _make_key(key, namespace) IN
    IF full_key \in CacheKeys(s.cache)
    THEN LET entry == CacheGet(s.cache, full_key) IN
         IF entry.expires_at # None /\ TheVal(entry.expires_at) # 0
         THEN [st |-> [s EXCEPT !.cache = Replace(s.cache, full_key,
                          [entry EXCEPT !.expires_at =
                              Some(TheVal(@) + additional_seconds)])],
               ret |-> TRUE]
         ELSE [st |-> s, ret |-> FALSE]
    ELSE [st |-> s, ret |-> FALSE]

\* "if entry.expires_at:" is false for None and for 0
extend_ttl_op(s, key, additional_seconds, namespace, t) ==
    LET full_key == _make_key(key, namespace) IN
    IF full_key \in CacheKeys(s.cache) /\ ~is_expired(CacheGet(s.cache, full_key), t)
    THEN LET entry == CacheGet(s.cache, full_key) IN
         IF entry.expires_at # None /\ TheVal(entry.expires_at) # 0
         THEN [st |-> [s EXCEPT !.cache = Replace(s.cache, full_key,
                          [entry EXCEPT !.expires_at =
                              Some(TheVal(@) + additional_seconds)])],
               ret |-> TRUE]
         ELSE [st |-> s, ret |-> FALSE]
    ELSE [st |-> s, ret |-> FALSE]

\* the sweep counting one expiration for the run
cleanup_expired_op_counts_once(s, t) ==
    LET expired_keys == {k \in CacheKeys(s.cache) : is_expired(CacheGet(s.cache, k), t)}
        s1 == RemoveAll(s, expired_keys)
    IN [st |-> [s1 EXCEPT !.stats.expirations =
                              @ + (IF expired_keys = {} THEN 0 ELSE 1)],
        ret |-> Cardinality(expired_keys)]

cleanup_expired_op(s, t) ==
    LET expired_keys == {k \in CacheKeys(s.cache) : is_expired(CacheGet(s.cache, k), t)}
        s1 == RemoveAll(s, expired_keys)
    IN [st |-> [s1 EXCEPT !.stats.expirations = @ + Cardinality(expired_keys)],
        ret |-> Cardinality(expired_keys)]

(***************************************************************************)
(* Actions                                                                 *)
(***************************************************************************)
\* a call is made, under the lock, and returns
Commit(r, call) ==
    /\ calls < MaxCalls
    /\ cache' = r.st.cache
    /\ namespaces' = r.st.namespaces
    /\ tags' = r.st.tags
    /\ stats' = r.st.stats
    /\ disk' = r.st.disk
    /\ last' = call
    /\ calls' = calls + 1
    /\ UNCHANGED <<config, _stop_cleanup, now, offstage>>

Get(key, namespace) ==
    LET r == get_op(Engine, key, namespace, now) IN
    Commit(r, Call("get", r.ret))

\* with max_size <= 0 the loop of lines 248-249 never exits: the call does
\* not return and, the store being empty, changes nothing
Set(key, value, ttl, namespace, tgs) ==
    /\ max_size >= 1
    /\ LET r == set_op(Engine, key, value, ttl, namespace, tgs, now) IN
       Commit(r, Call("set", r.ret))

Delete(key, namespace) ==
    LET r == delete_op(Engine, key, namespace) IN
    Commit(r, Call("delete", r.ret))

Exists(key, namespace) ==
    LET r == exists_op(Engine, key, namespace, now) IN
    Commit(r, Call("exists", r.ret))

Clear(namespace) ==
    LET r == clear_op(Engine, namespace) IN
    Commit(r, Call("clear", r.ret))

InvalidateByTag(tag) ==
    LET r == invalidate_by_tag_op(Engine, tag) IN
    Commit(r, Call("invalidate_by_tag", r.ret))

InvalidateByPattern(pattern, namespace) ==
    LET r == invalidate_by_pattern_op(Engine, pattern, namespace) IN
    Commit(r, Call("invalidate_by_pattern", r.ret))

Touch(key, namespace) ==
    LET r == touch_op(Engine, key, namespace, now) IN
    Commit(r, Call("touch", r.ret))

ExtendTtl(key, additional_seconds, namespace) ==
    LET r == extend_ttl_op(Engine, key, additional_seconds, namespace, now) IN
    Commit(r, Call("extend_ttl", r.ret))

CleanupExpired ==
    LET r == cleanup_expired_op(Engine, now) IN
    Commit(r, Call("cleanup_expired", r.ret))

\* stop() on an engine whose cleanup thread has ended or was never started:
\* the flag of the cleanup loop is raised, the join returns at once and, with
\* persistence on, every stored entry is written out; the store is left as it
\* is
Stop ==
    /\ calls < MaxCalls
    /\ _stop_cleanup' = TRUE
    /\ disk' = IF enable_persistence THEN _save_all(disk, cache) ELSE disk
    /\ last' = Call("stop", "-")
    /\ calls' = calls + 1
    /\ UNCHANGED <<config, cache, namespaces, tags, stats, now, offstage>>

Tick ==
    /\ now < MaxTime
    /\ now' = now + 1
    /\ last' = Call("tick", "-")
    /\ UNCHANGED <<config, cache, namespaces, tags, stats, _stop_cleanup, calls,
                   disk, offstage>>

\* the engine as __init__ leaves it, in a fresh persistence directory
Constructed ==
    /\ default_ttl \in DefaultTtlChoices
    /\ max_memory_bytes \in {mb * BytesPerMb : mb \in MemoryMbChoices}
    /\ cache = <<>>
    /\ namespaces = EmptyDict
    /\ tags = EmptyDict
    /\ stats = CacheStatistics
    /\ _stop_cleanup = FALSE
    /\ disk = Directory(EmptyDict, FALSE)
    /\ now = StartTime
    /\ last = Call("init", "-")
    /\ calls = 0

\* one caller, no other thread
NoOffstage ==
    /\ procs = EmptyDict
    /\ lock = None
    /\ world = EmptyDict

Init ==
    /\ enabled \in EnabledChoices
    /\ max_size \in MaxSizeChoices
    /\ enable_persistence = FALSE
    /\ cleanup_interval = CACHE_CLEANUP_INTERVAL
    /\ Constructed
    /\ NoOffstage

\* an enabled engine constructed with enable_persistence = True
PersistInit ==
    /\ enabled = TRUE
    /\ max_size \in MaxSizeChoices
    /\ enable_persistence = TRUE
    /\ cleanup_interval = CACHE_CLEANUP_INTERVAL
    /\ Constructed
    /\ NoOffstage

Next ==
    \/ \E key \in Keys, namespace \in Namespaces : Get(key, namespace)
    \/ \E key \in Keys, value \in Values, ttl \in TtlChoices,
          namespace \in Namespaces, tgs \in TagSets :
            Set(key, value, ttl, namespace, tgs)
    \/ \E key \in Keys, namespace \in Namespaces : Delete(key, namespace)
    \/ \E key \in Keys, namespace \in Namespaces : Exists(key, namespace)
    \/ \E namespace \in NamespaceChoices : Clear(namespace)
    \/ \E tag \in TagNames : InvalidateByTag(tag)
    \/ \E pattern \in Patterns, namespace \in Namespaces :
            InvalidateByPattern(pattern, namespace)
    \/ \E key \in Keys, namespace \in Namespaces : Touch(key, namespace)
    \/ \E key \in Keys, additional_seconds \in ExtendChoices, namespace \in Namespaces :
            ExtendTtl(key, additional_seconds, namespace)
    \/ CleanupExpired
    \/ Stop
    \/ Tick

Spec == Init /\ [][Next]_vars

\* the same calls on an engine that persists its entries; one value is
\* enough, because the file of an entry depends on its key alone
PersistValues == {"v1"}

PersistNext ==
    \/ \E key \in Keys, namespace \in Namespaces : Get(key, namespace)
    \/ \E key \in Keys, value \in PersistValues, ttl \in TtlChoices,
          namespace \in Namespaces, tgs \in TagSets :
            Set(key, value, ttl, namespace, tgs)
    \/ \E key \in Keys, namespace \in Namespaces : Delete(key, namespace)
    \/ \E key \in Keys, namespace \in Namespaces : Exists(key, namespace)
    \/ \E namespace \in NamespaceChoices : Clear(namespace)
    \/ \E tag \in TagNames : InvalidateByTag(tag)
    \/ \E pattern \in Patterns, namespace \in Namespaces :
            InvalidateByPattern(pattern, namespace)
    \/ \E key \in Keys, namespace \in Namespaces : Touch(key, namespace)
    \/ \E key \in Keys, additional_seconds \in ExtendChoices, namespace \in Namespaces :
            ExtendTtl(key, additional_seconds, namespace)
    \/ CleanupExpired
    \/ Stop
    \/ Tick

PersistSpec == PersistInit /\ [][PersistNext]_vars

(***************************************************************************)
(* A process that ends and a new one that constructs the engine again with *)
(* the same arguments over the same persistence directory.  __init__       *)
(* assigns the empty store, indices and statistics, makes the directory if *)
(* it is missing and starts the cleanup thread; it does not call _load_all *)
(* (which no code calls), so the files stay as they are.  The process ends *)
(* after stop().                                                           *)
(***************************************************************************)
RestoreInit ==
    /\ enabled = TRUE
    /\ max_size \in MaxSizeChoices
    /\ enable_persistence = TRUE
    /\ cleanup_interval = CACHE_CLEANUP_INTERVAL
    /\ Constructed
    /\ procs = EmptyDict
    /\ lock = None
    /\ world = [run |-> 1]

Restart ==
    /\ world.run < MaxRuns
    /\ _stop_cleanup
    /\ world' = [world EXCEPT !.run = @ + 1]
    /\ cache' = <<>>
    /\ namespaces' = EmptyDict
    /\ tags' = EmptyDict
    /\ stats' = CacheStatistics
    /\ _stop_cleanup' = FALSE
    /\ last' = Call("init", "-")
    /\ UNCHANGED <<config, disk, now, calls, procs, lock>>

RestoreNext ==
    \/ \E key \in Keys, value \in PersistValues, ttl \in TtlChoices,
          namespace \in Namespaces, tgs \in TagSets :
            Set(key, value, ttl, namespace, tgs)
    \/ \E key \in Keys, namespace \in Namespaces : Get(key, namespace)
    \/ \E key \in Keys, namespace \in Namespaces : Delete(key, namespace)
    \/ Stop
    \/ Tick
    \/ Restart

RestoreSpec == RestoreInit /\ [][RestoreNext]_vars

(***************************************************************************)
(* An engine with persistence whose directory can start and stop failing   *)
(* (disk full, permissions, a missing mount) at any time.                  *)
(***************************************************************************)
FaultTagSets == {{}}

DiskFails ==
    /\ ~disk.failing
    /\ disk' = [disk EXCEPT !.failing = TRUE]
    /\ UNCHANGED <<config, cache, namespaces, tags, stats, _stop_cleanup, now, last,
                   calls, offstage>>

DiskRecovers ==
    /\ disk.failing
    /\ disk' = [disk EXCEPT !.failing = FALSE]
    /\ UNCHANGED <<config, cache, namespaces, tags, stats, _stop_cleanup, now, last,
                   calls, offstage>>

FaultNext ==
    \/ \E key \in Keys, value \in PersistValues, ttl \in TtlChoices,
          namespace \in Namespaces, tgs \in FaultTagSets :
            Set(key, value, ttl, namespace, tgs)
    \/ \E key \in Keys, namespace \in Namespaces : Get(key, namespace)
    \/ \E key \in Keys, namespace \in Namespaces : Delete(key, namespace)
    \/ \E key \in Keys, namespace \in Namespaces : Exists(key, namespace)
    \/ CleanupExpired
    \/ Tick
    \/ DiskFails
    \/ DiskRecovers

FaultSpec == PersistInit /\ [][FaultNext]_vars

\* the engine after a call made by a thread
EngineBecomes(st) ==
    /\ cache' = st.cache
    /\ namespaces' = st.namespaces
    /\ tags' = st.tags
    /\ stats' = st.stats
    /\ disk' = st.disk

(***************************************************************************)
(* The cleanup thread and stop().  The thread runs cleanup_loop:           *)
(*     while not self._stop_cleanup:          "test"                       *)
(*         time.sleep(self.cleanup_interval)  "sleep"                      *)
(*         self.cleanup_expired()             "sweep"                      *)
(* and the caller runs stop(): it raises the flag and joins the thread for *)
(* at most JoinTimeout seconds ("join").  The clock counts seconds; a      *)
(* thread whose wait is over acts before the clock moves on.               *)
(***************************************************************************)
Proc(pc, timer) == [pc |-> pc, timer |-> timer]

SweeperInit ==
    /\ enabled = TRUE
    /\ max_size \in MaxSizeChoices
    /\ enable_persistence = FALSE
    /\ cleanup_interval \in CleanupIntervalChoices
    /\ Constructed
    /\ procs = [sweeper |-> Proc("test", 0), stopper |-> Proc("running", 0)]
    /\ lock = None
    /\ world = EmptyDict

\* while not self._stop_cleanup: time.sleep(self.cleanup_interval)
SweeperTest ==
    /\ procs.sweeper.pc = "test"
    /\ procs' = [procs EXCEPT !.sweeper =
                    IF _stop_cleanup THEN Proc("ended", 0)
                    ELSE Proc("sleep", cleanup_interval)]
    /\ last' = Call("cleanup_loop", "test")
    /\ UNCHANGED <<config, cache, namespaces, tags, stats, _stop_cleanup, now, calls,
                   disk, lock, world>>

\* time.sleep returns
SweeperWake ==
    /\ procs.sweeper.pc = "sleep"
    /\ procs.sweeper.timer = 0
    /\ procs' = [procs EXCEPT !.sweeper = Proc("sweep", 0)]
    /\ last' = Call("cleanup_loop", "wake")
    /\ UNCHANGED <<config, cache, namespaces, tags, stats, _stop_cleanup, now, calls,
                   disk, lock, world>>

\* self.cleanup_expired(), under the lock; then back to the loop test
SweeperSweep ==
    /\ procs.sweeper.pc = "sweep"
    /\ LET r == cleanup_expired_op(Engine, now) IN
       /\ EngineBecomes(r.st)
       /\ last' = Call("sweep", r.ret)
    /\ procs' = [procs EXCEPT !.sweeper = Proc("test", 0)]
    /\ UNCHANGED <<config, _stop_cleanup, now, calls, lock, world>>

\* stop(): self._stop_cleanup = True; self._cleanup_task.join(timeout=5)
StopCall ==
    /\ procs.stopper.pc = "running"
    /\ _stop_cleanup' = TRUE
    /\ procs' = [procs EXCEPT !.stopper = Proc("join", JoinTimeout)]
    /\ last' = Call("stop", "join")
    /\ UNCHANGED <<config, cache, namespaces, tags, stats, now, calls, disk, lock, world>>

\* the join returns because the thread has ended; stop() returns
\* (enable_persistence is False)
JoinEnds ==
    /\ procs.stopper.pc = "join"
    /\ procs.sweeper.pc = "ended"
    /\ procs' = [procs EXCEPT !.stopper = Proc("returned", 0)]
    /\ last' = Call("stop", "joined")
    /\ UNCHANGED <<config, cache, namespaces, tags, stats, _stop_cleanup, now, calls,
                   disk, lock, world>>

\* the join returns because its timeout has passed; stop() returns
JoinTimesOut ==
    /\ procs.stopper.pc = "join"
    /\ procs.stopper.timer = 0
    /\ procs.sweeper.pc # "ended"
    /\ procs' = [procs EXCEPT !.stopper = Proc("returned", 0)]
    /\ last' = Call("stop", "timeout")
    /\ UNCHANGED <<config, cache, namespaces, tags, stats, _stop_cleanup, now, calls,
                   disk, lock, world>>

\* the caller, outside stop(), stores an entry with the default ttl
SweeperSet(key) ==
    /\ procs.stopper.pc # "join"
    /\ calls < MaxCalls
    /\ LET r == set_op(Engine, key, "v1", None, "n1", {}, now) IN
       /\ EngineBecomes(r.st)
       /\ last' = Call("set", r.ret)
    /\ calls' = calls + 1
    /\ UNCHANGED <<config, _stop_cleanup, now, procs, lock, world>>

\* one second passes while every thread is waiting or has ended
SweeperClock ==
    /\ now < MaxSweeperTime
    /\ \/ procs.sweeper.pc = "ended"
       \/ procs.sweeper.pc = "sleep" /\ procs.sweeper.timer > 0
    /\ procs.stopper.pc = "join" =>
          procs.stopper.timer > 0 /\ procs.sweeper.pc # "ended"
    /\ now' = now + 1
    /\ procs' = [p \in DOMAIN procs |->
                    IF procs[p].timer > 0
                    THEN Proc(procs[p].pc, procs[p].timer - 1) ELSE procs[p]]
    /\ last' = Call("tick", "-")
    /\ UNCHANGED <<config, cache, namespaces, tags, stats, _stop_cleanup, calls,
                   disk, lock, world>>

SweeperNext ==
    \/ SweeperTest
    \/ SweeperWake
    \/ SweeperSweep
    \/ StopCall
    \/ JoinEnds
    \/ JoinTimesOut
    \/ \E key \in Keys : SweeperSet(key)
    \/ SweeperClock

SweeperSpec == SweeperInit /\ [][SweeperNext]_vars

(***************************************************************************)
(* Construction, and set() statement by statement: the caller is at "new"  *)
(* before __init__, "idle" between calls, and inside set at "count_loop"   *)
(* (lines 248-249), "memory_loop" (lines 252-254) or "insert" (lines       *)
(* 256-297).  iter is the parity of the iterations made by the loop the     *)
(* caller is in.                                                           *)
(***************************************************************************)
Caller(pc, key, value, iter) == [pc |-> pc, key |-> key, value |-> value, iter |-> iter]

LoopInit ==
    /\ enabled \in EnabledChoices
    /\ max_size \in MaxSizeArgs
    /\ enable_persistence = FALSE
    /\ cleanup_interval = CACHE_CLEANUP_INTERVAL
    /\ Constructed
    /\ procs = [caller |-> Caller("new", "-", "-", 0)]
    /\ lock = None
    /\ world = EmptyDict

LoopFrame == UNCHANGED <<config, _stop_cleanup, now, lock, world>>

\* __init__ stores its arguments as they are and returns
Construct ==
    /\ procs.caller.pc = "new"
    /\ procs' = [procs EXCEPT !.caller.pc = "idle"]
    /\ last' = Call("init", "done")
    /\ EngineBecomes(Engine)
    /\ UNCHANGED calls
    /\ LoopFrame

\* set up to the size check (lines 230-245)
SetBegin(key, value) ==
    /\ procs.caller.pc = "idle"
    /\ calls < MaxCalls
    /\ calls' = calls + 1
    /\ IF ~enabled \/ PickleLen(value) > max_memory_bytes
       THEN /\ last' = Call("set", "False")
            /\ UNCHANGED procs
       ELSE /\ last' = Call("set", "running")
            /\ procs' = [procs EXCEPT !.caller = Caller("count_loop", key, value, 0)]
    /\ EngineBecomes(Engine)
    /\ LoopFrame

\* while len(self._cache) >= self.max_size: self._evict_lru()
CountLoopStep ==
    /\ procs.caller.pc = "count_loop"
    /\ IF Len(cache) >= max_size
       THEN /\ EngineBecomes(_evict_lru(Engine))
            /\ procs' = [procs EXCEPT !.caller.iter = 1 - @]
       ELSE /\ EngineBecomes(Engine)
            /\ procs' = [procs EXCEPT !.caller.pc = "memory_loop", !.caller.iter = 0]
    /\ UNCHANGED <<last, calls>>
    /\ LoopFrame

\* while total_size_bytes + size_bytes > max_memory_bytes:
\*     if not self._evict_lru(): break
MemoryLoopStep ==
    /\ procs.caller.pc = "memory_loop"
    /\ IF stats.total_size_bytes + PickleLen(procs.caller.value) > max_memory_bytes
          /\ cache # <<>>
       THEN /\ EngineBecomes(_evict_lru(Engine))
            /\ procs' = [procs EXCEPT !.caller.iter = 1 - @]
       ELSE /\ EngineBecomes(Engine)
            /\ procs' = [procs EXCEPT !.caller.pc = "insert", !.caller.iter = 0]
    /\ UNCHANGED <<last, calls>>
    /\ LoopFrame

\* the rest of set (lines 256-297), which is set_op once both loops have
\* nothing left to evict
InsertStep ==
    /\ procs.caller.pc = "insert"
    /\ LET r == set_op(Engine, procs.caller.key, procs.caller.value, None, "n1", {}, now) IN
       /\ EngineBecomes(r.st)
       /\ last' = Call("set", IF r.ret THEN "True" ELSE "False")
    /\ procs' = [procs EXCEPT !.caller = Caller("idle", "-", "-", 0)]
    /\ UNCHANGED calls
    /\ LoopFrame

\* the statements of a set in progress
LoopStep == CountLoopStep \/ MemoryLoopStep \/ InsertStep

LoopNext ==
    \/ Construct
    \/ \E key \in Keys, value \in Values : SetBegin(key, value)
    \/ CountLoopStep
    \/ MemoryLoopStep
    \/ InsertStep

\* the thread inside set keeps running
LoopSpec == LoopInit /\ [][LoopNext]_vars /\ WF_vars(LoopStep)

(***************************************************************************)
(* export_stats beside a thread that calls set.  The exporter runs         *)
(*     stats = self.get_stats()                        "get_stats"         *)
(*     top_items = self.get_top_items(20)              "get_top_items"     *)
(*     [... for ns in self._namespaces.keys()]         "iter", "next"      *)
(*         self.get_namespace_stats(ns)                "namespace_stats"   *)
(*     json.dump(...); return True                                         *)
(* where get_stats, get_top_items and get_namespace_stats each take the    *)
(* lock for their body, and the iteration over self._namespaces takes none.*)
(* A dict iterator raises RuntimeError when the dict has changed size      *)
(* since the iterator was made; export_stats catches it and returns False. *)
(* The writer runs set: "locked" after "with self._lock", "release" after  *)
(* the body.                                                               *)
(***************************************************************************)
Exporter(pc, remaining, seen_size) ==
    [pc |-> pc, remaining |-> remaining, seen_size |-> seen_size]

Writer(pc, key, namespace) == [pc |-> pc, key |-> key, namespace |-> namespace]

ExportInit ==
    /\ enabled = TRUE
    /\ max_size \in MaxSizeChoices
    /\ enable_persistence = FALSE
    /\ cleanup_interval = CACHE_CLEANUP_INTERVAL
    /\ Constructed
    /\ procs = [exporter |-> Exporter("idle", {}, 0), writer |-> Writer("idle", "-", "-")]
    /\ lock = None
    /\ world = EmptyDict

ExportFrame == UNCHANGED <<config, _stop_cleanup, now, world>>

\* export_stats is called
ExportCall ==
    /\ procs.exporter.pc = "idle"
    /\ procs' = [procs EXCEPT !.exporter.pc = "get_stats"]
    /\ last' = Call("export_stats", "running")
    /\ UNCHANGED <<cache, namespaces, tags, stats, disk, calls, lock>>
    /\ ExportFrame

\* get_stats() and get_top_items(20): the lock is taken, the store is read,
\* the lock is given back
ExportLocked ==
    /\ procs.exporter.pc \in {"get_stats", "get_top_items"}
    /\ lock = None
    /\ procs' = [procs EXCEPT !.exporter.pc =
                    IF @ = "get_stats" THEN "get_top_items" ELSE "iter"]
    /\ UNCHANGED <<cache, namespaces, tags, stats, disk, calls, lock, last>>
    /\ ExportFrame

\* self._namespaces.keys() and iter() on it, outside any lock
ExportIter ==
    /\ procs.exporter.pc = "iter"
    /\ procs' = [procs EXCEPT !.exporter =
                    Exporter("next", DOMAIN namespaces, Cardinality(DOMAIN namespaces))]
    /\ UNCHANGED <<cache, namespaces, tags, stats, disk, calls, lock, last>>
    /\ ExportFrame

\* next() on the iterator, outside any lock: RuntimeError if the dict has
\* changed size (export_stats returns False), the next namespace if there is
\* one, and else the file is written and True returned
ExportNext ==
    /\ procs.exporter.pc = "next"
    /\ IF Cardinality(DOMAIN namespaces) # procs.exporter.seen_size
       THEN /\ procs' = [procs EXCEPT !.exporter = Exporter("done", {}, 0)]
            /\ last' = Call("export_stats", "False")
       ELSE IF procs.exporter.remaining = {}
       THEN /\ procs' = [procs EXCEPT !.exporter = Exporter("done", {}, 0)]
            /\ last' = Call("export_stats", "True")
       ELSE /\ \E ns \in procs.exporter.remaining :
                 procs' = [procs EXCEPT !.exporter.pc = "namespace_stats",
                                        !.exporter.remaining = @ \ {ns}]
            /\ UNCHANGED last
    /\ UNCHANGED <<cache, namespaces, tags, stats, disk, calls, lock>>
    /\ ExportFrame

\* get_namespace_stats(ns), under the lock
ExportNamespaceStats ==
    /\ procs.exporter.pc = "namespace_stats"
    /\ lock = None
    /\ procs' = [procs EXCEPT !.exporter.pc = "next"]
    /\ UNCHANGED <<cache, namespaces, tags, stats, disk, calls, lock, last>>
    /\ ExportFrame

\* the other thread enters set: with self._lock
WriterAcquire(key, namespace) ==
    /\ procs.writer.pc = "idle"
    /\ calls < MaxCalls
    /\ lock = None
    /\ lock' = Some("writer")
    /\ procs' = [procs EXCEPT !.writer = Writer("locked", key, namespace)]
    /\ calls' = calls + 1
    /\ UNCHANGED <<cache, namespaces, tags, stats, disk, last>>
    /\ ExportFrame

\* the body of set
WriterSet ==
    /\ procs.writer.pc = "locked"
    /\ LET r == set_op(Engine, procs.writer.key, "v1", None, procs.writer.namespace,
                       {}, now) IN
       /\ EngineBecomes(r.st)
    /\ procs' = [procs EXCEPT !.writer.pc = "release"]
    /\ UNCHANGED <<calls, lock, last>>
    /\ ExportFrame

\* the other thread leaves the with block
WriterRelease ==
    /\ procs.writer.pc = "release"
    /\ lock' = None
    /\ procs' = [procs EXCEPT !.writer = Writer("idle", "-", "-")]
    /\ UNCHANGED <<cache, namespaces, tags, stats, disk, calls, last>>
    /\ ExportFrame

ExportSpecNext ==
    \/ ExportCall
    \/ ExportLocked
    \/ ExportIter
    \/ ExportNext
    \/ ExportNamespaceStats
    \/ \E key \in Keys, namespace \in Namespaces : WriterAcquire(key, namespace)
    \/ WriterSet
    \/ WriterRelease

ExportSpec == ExportInit /\ [][ExportSpecNext]_vars

(***************************************************************************)
(* CacheStrategy.cache_aside, run by two threads.  Each statement of the   *)
(* strategy is a step: cache.get (atomic under the engine's lock), the     *)
(* test "value is not None", loader(), cache.set (atomic), return.  The    *)
(* loader reads the source of truth, which holds a value or None and can   *)
(* change at any time; world counts the loader's invocations per key.      *)
(***************************************************************************)
Threads == {"t1", "t2"}
StrategyNamespace == "n1"
LoaderValues == {"v1", "v2", "None"}

Strategist(pc, key, value) == [pc |-> pc, key |-> key, value |-> value]

AsideInit ==
    /\ enabled = TRUE
    /\ max_size \in MaxSizeChoices
    /\ enable_persistence = FALSE
    /\ cleanup_interval = CACHE_CLEANUP_INTERVAL
    /\ Constructed
    /\ procs = [th \in Threads |-> Strategist("idle", "-", "-")]
    /\ lock = None
    /\ world = [source |-> "v1", loads |-> [k \in Keys |-> 0]]

AsideFrame == UNCHANGED <<config, _stop_cleanup, now, lock>>

\* cache_aside(cache, key, loader, namespace=...) is called
AsideCall(th, key) ==
    /\ procs[th].pc = "idle"
    /\ calls < MaxCalls
    /\ procs' = [procs EXCEPT ![th] = Strategist("get", key, "-")]
    /\ calls' = calls + 1
    /\ last' = Call("cache_aside", "running")
    /\ UNCHANGED <<cache, namespaces, tags, stats, disk, world>>
    /\ AsideFrame

\* value = cache.get(key, namespace=namespace); if value is not None: return value
AsideGet(th) ==
    /\ procs[th].pc = "get"
    /\ LET r == get_op(Engine, procs[th].key, StrategyNamespace, now) IN
       /\ EngineBecomes(r.st)
       /\ IF r.ret # DefaultVal
          THEN /\ procs' = [procs EXCEPT ![th] = Strategist("idle", "-", "-")]
               /\ last' = Call("cache_aside", r.ret)
          ELSE /\ procs' = [procs EXCEPT ![th].pc = "load", ![th].value = r.ret]
               /\ UNCHANGED last
    /\ UNCHANGED <<calls, world>>
    /\ AsideFrame

\* value = loader()
AsideLoad(th) ==
    /\ procs[th].pc = "load"
    /\ procs' = [procs EXCEPT ![th].pc = "set", ![th].value = world.source]
    /\ world' = [world EXCEPT !.loads[procs[th].key] = @ + 1]
    /\ UNCHANGED <<cache, namespaces, tags, stats, disk, calls, last>>
    /\ AsideFrame

\* cache.set(key, value, ttl=ttl, namespace=namespace); return value
AsideSet(th) ==
    /\ procs[th].pc = "set"
    /\ LET r == set_op(Engine, procs[th].key, procs[th].value, None,
                       StrategyNamespace, {}, now) IN
       EngineBecomes(r.st)
    /\ procs' = [procs EXCEPT ![th] = Strategist("idle", "-", "-")]
    /\ last' = Call("cache_aside", procs[th].value)
    /\ UNCHANGED <<calls, world>>
    /\ AsideFrame

\* the source of truth changes
SourceChanges ==
    /\ \E v \in LoaderValues \ {world.source} : world' = [world EXCEPT !.source = v]
    /\ UNCHANGED <<cache, namespaces, tags, stats, disk, calls, last, procs>>
    /\ AsideFrame

\* time passes
AsideClock ==
    /\ now < MaxTime
    /\ now' = now + 1
    /\ UNCHANGED <<config, cache, namespaces, tags, stats, _stop_cleanup, calls,
                   disk, last, offstage>>

AsideNext ==
    \/ \E th \in Threads, key \in Keys : AsideCall(th, key)
    \/ \E th \in Threads : AsideGet(th)
    \/ \E th \in Threads : AsideLoad(th)
    \/ \E th \in Threads : AsideSet(th)
    \/ SourceChanges
    \/ AsideClock

AsideSpec == AsideInit /\ [][AsideNext]_vars

(***************************************************************************)
(* CacheStrategy.write_through and CacheStrategy.write_behind, run by one  *)
(* caller.  Each strategy is the sequence of its statements; writer(value) *)
(* either writes the value to the source of truth or raises, and an        *)
(* exception leaves the strategy at once.  Thread(target=writer).start()   *)
(* adds a deferred writer to world.deferred, which runs at any later time. *)
(* The caller's record keeps what the call has done so far, and the entry  *)
(* of its key when the call began.                                         *)
(***************************************************************************)
WriteValues == {"v1", "v2"}

\* write_through with its two statements exchanged
write_through_steps_set_first == <<"set", "writer">>

write_through_steps == <<"writer", "set">>

\* write_behind with its two statements exchanged
write_behind_steps_start_first == <<"start", "set">>

write_behind_steps == <<"set", "start">>

StrategySteps(strategy) ==
    IF strategy = "write_through" THEN write_through_steps ELSE write_behind_steps

WriteCaller(strategy, at, key, value, before) ==
    [strategy |-> strategy, at |-> at, key |-> key, value |-> value,
     before |-> before, wrote |-> FALSE, did_set |-> FALSE, started |-> 0]

\* the entry stored under the key, if any
Stored(c, key) ==
    IF _make_key(key, StrategyNamespace) \in CacheKeys(c)
    THEN Some(CacheGet(c, _make_key(key, StrategyNamespace))) ELSE None

WriteInit ==
    /\ enabled = TRUE
    /\ max_size \in MaxSizeChoices
    /\ enable_persistence = FALSE
    /\ cleanup_interval = CACHE_CLEANUP_INTERVAL
    /\ Constructed
    /\ procs = [caller |-> WriteCaller("-", 0, "-", "-", None)]
    /\ lock = None
    /\ world = [truth |-> "-", deferred |-> <<>>, started |-> 0, ran |-> 0,
                failed |-> 0]

WriteFrame == UNCHANGED <<config, _stop_cleanup, now, lock>>

CurrentStep ==
    IF procs.caller.at = 0 THEN "-"
    ELSE StrategySteps(procs.caller.strategy)[procs.caller.at]

\* the caller after its current statement, and the return after the last one
Advance(c) ==
    /\ procs' = [procs EXCEPT !.caller =
                    IF c.at = Len(StrategySteps(c.strategy))
                    THEN [c EXCEPT !.at = 0] ELSE [c EXCEPT !.at = @ + 1]]
    /\ last' = IF c.at = Len(StrategySteps(c.strategy))
               THEN Call(c.strategy, "None") ELSE last

\* write_through(cache, key, value, writer) or write_behind(...) is called
WriteCall(strategy, key, value) ==
    /\ procs.caller.at = 0
    /\ calls < MaxCalls
    /\ procs' = [procs EXCEPT !.caller =
                    WriteCaller(strategy, 1, key, value, Stored(cache, key))]
    /\ calls' = calls + 1
    /\ last' = Call(strategy, "running")
    /\ UNCHANGED <<cache, namespaces, tags, stats, disk, world>>
    /\ WriteFrame

\* writer(value) returns
WriterReturns ==
    /\ CurrentStep = "writer"
    /\ world' = [world EXCEPT !.truth = procs.caller.value]
    /\ Advance([procs.caller EXCEPT !.wrote = TRUE])
    /\ UNCHANGED <<cache, namespaces, tags, stats, disk, calls>>
    /\ WriteFrame

\* writer(value) raises: the exception ends the call
WriterRaises ==
    /\ CurrentStep = "writer"
    /\ procs' = [procs EXCEPT !.caller.at = 0]
    /\ last' = Call(procs.caller.strategy, "raised")
    /\ UNCHANGED <<cache, namespaces, tags, stats, disk, calls, world>>
    /\ WriteFrame

\* cache.set(key, value, ttl=ttl, namespace=namespace)
WriteSet ==
    /\ CurrentStep = "set"
    /\ LET r == set_op(Engine, procs.caller.key, procs.caller.value, None,
                       StrategyNamespace, {}, now) IN
       EngineBecomes(r.st)
    /\ Advance([procs.caller EXCEPT !.did_set = TRUE])
    /\ UNCHANGED <<calls, world>>
    /\ WriteFrame

\* threading.Thread(target=writer, args=(value,), daemon=True).start()
StartWriter ==
    /\ CurrentStep = "start"
    /\ world' = [world EXCEPT !.deferred = Append(@, procs.caller.value),
                              !.started = @ + 1]
    /\ Advance([procs.caller EXCEPT !.started = @ + 1])
    /\ UNCHANGED <<cache, namespaces, tags, stats, disk, calls>>
    /\ WriteFrame

\* a deferred writer runs: it writes its value or raises, and its thread ends
DeferredRuns(i, ok) ==
    /\ i \in 1..Len(world.deferred)
    /\ world' = [world EXCEPT
                    !.deferred = SubSeq(@, 1, i - 1) \o SubSeq(@, i + 1, Len(@)),
                    !.truth = IF ok THEN world.deferred[i] ELSE @,
                    !.ran = @ + 1,
                    !.failed = IF ok THEN @ ELSE @ + 1]
    /\ UNCHANGED <<cache, namespaces, tags, stats, disk, calls, last, procs>>
    /\ WriteFrame

WriteNext ==
    \/ \E strategy \in {"write_through", "write_behind"}, key \in Keys,
          value \in WriteValues : WriteCall(strategy, key, value)
    \/ WriterReturns
    \/ WriterRaises
    \/ WriteSet
    \/ StartWriter
    \/ \E i \in 1..MaxCalls, ok \in BOOLEAN : DeferredRuns(i, ok)
    \/ AsideClock

WriteSpec == WriteInit /\ [][WriteNext]_vars

(***************************************************************************)
(* CacheStrategy.refresh_ahead, run by one caller.  Its statements:        *)
(* cache.get; on a value that is not None the look at the entry            *)
(* (cache._cache.get, get_ttl_remaining, the test, the start of the        *)
(* refresh thread, return), and else loader(), cache.set, return.  The     *)
(* clock can advance between any two statements.  A refresh thread runs    *)
(* loader() and then cache.set; world.refreshers holds the threads that    *)
(* have been started and have not ended.  refresh_threshold is given in    *)
(* hundredths, so that ttl * (1 - refresh_threshold) stays in integers.    *)
(***************************************************************************)
RefreshValues == {"v1", "v2"}
RefreshTtlChoices == {0, 2}
RefreshThresholdPct == 25

RefreshCaller(pc, key, ttl, value) ==
    [pc |-> pc, key |-> key, ttl |-> ttl, value |-> value]

Refresher(pc, key, ttl, value) ==
    [pc |-> pc, key |-> key, ttl |-> ttl, value |-> value]

\* Python's truth value of an Optional[float]
Truthy(o) == o # None /\ TheVal(o) # 0

\* if ttl_remaining and ttl_remaining < (ttl * (1 - refresh_threshold))
NeedsRefresh(ttl_remaining, ttl) ==
    /\ Truthy(ttl_remaining)
    /\ TheVal(ttl_remaining) * 100 < ttl * (100 - RefreshThresholdPct)

RefreshInit ==
    /\ enabled = TRUE
    /\ max_size \in MaxSizeChoices
    /\ enable_persistence = FALSE
    /\ cleanup_interval = CACHE_CLEANUP_INTERVAL
    /\ Constructed
    /\ procs = [caller |-> RefreshCaller("idle", "-", 0, "-")]
    /\ lock = None
    /\ world = [refreshers |-> <<>>, loads |-> 0]

RefreshFrame == UNCHANGED <<config, _stop_cleanup, now, lock>>

\* refresh_ahead(cache, key, loader, ttl, refresh_threshold) is called
RefreshCall(key, ttl) ==
    /\ procs.caller.pc = "idle"
    /\ calls < MaxCalls
    /\ procs' = [procs EXCEPT !.caller = RefreshCaller("get", key, ttl, "-")]
    /\ calls' = calls + 1
    /\ last' = Call("refresh_ahead", "running")
    /\ UNCHANGED <<cache, namespaces, tags, stats, disk, world>>
    /\ RefreshFrame

\* value = cache.get(key, namespace=namespace); if value is not None:
RefreshGet ==
    /\ procs.caller.pc = "get"
    /\ LET r == get_op(Engine, procs.caller.key, StrategyNamespace, now) IN
       /\ EngineBecomes(r.st)
       /\ procs' = [procs EXCEPT !.caller.value = r.ret,
                                 !.caller.pc = IF r.ret # DefaultVal THEN "peek"
                                               ELSE "load"]
    /\ UNCHANGED <<calls, world, last>>
    /\ RefreshFrame

\* entry = cache._cache.get(full_key); if entry: the test on
\* entry.get_ttl_remaining(), the start of the refresh thread; return value
RefreshPeek ==
    /\ procs.caller.pc = "peek"
    /\ LET entry == Stored(cache, procs.caller.key) IN
       world' = IF entry # None
                   /\ NeedsRefresh(get_ttl_remaining(TheVal(entry), now),
                                   procs.caller.ttl)
                THEN [world EXCEPT !.refreshers =
                         Append(@, Refresher("load", procs.caller.key,
                                             procs.caller.ttl, "-"))]
                ELSE world
    /\ procs' = [procs EXCEPT !.caller = RefreshCaller("idle", "-", 0, "-")]
    /\ last' = Call("refresh_ahead", procs.caller.value)
    /\ UNCHANGED <<cache, namespaces, tags, stats, disk, calls>>
    /\ RefreshFrame

\* value = loader(), on the miss path
RefreshLoad(value) ==
    /\ procs.caller.pc = "load"
    /\ procs' = [procs EXCEPT !.caller.pc = "set", !.caller.value = value]
    /\ world' = [world EXCEPT !.loads = @ + 1]
    /\ UNCHANGED <<cache, namespaces, tags, stats, disk, calls, last>>
    /\ RefreshFrame

\* cache.set(key, value, ttl=ttl, namespace=namespace); return value
RefreshSet ==
    /\ procs.caller.pc = "set"
    /\ LET r == set_op(Engine, procs.caller.key, procs.caller.value,
                       Some(procs.caller.ttl), StrategyNamespace, {}, now) IN
       EngineBecomes(r.st)
    /\ procs' = [procs EXCEPT !.caller = RefreshCaller("idle", "-", 0, "-")]
    /\ last' = Call("refresh_ahead", procs.caller.value)
    /\ UNCHANGED <<calls, world>>
    /\ RefreshFrame

\* refresh(): new_value = loader()
RefresherLoads(i, value) ==
    /\ i \in 1..Len(world.refreshers)
    /\ world.refreshers[i].pc = "load"
    /\ world' = [world EXCEPT !.refreshers[i].pc = "set",
                              !.refreshers[i].value = value,
                              !.loads = @ + 1]
    /\ UNCHANGED <<cache, namespaces, tags, stats, disk, calls, last, procs>>
    /\ RefreshFrame

\* refresh(): cache.set(key, new_value, ttl=ttl, namespace=namespace)
RefresherSets(i) ==
    /\ i \in 1..Len(world.refreshers)
    /\ world.refreshers[i].pc = "set"
    /\ LET th == world.refreshers[i]
           r == set_op(Engine, th.key, th.value, Some(th.ttl), StrategyNamespace,
                       {}, now) IN
       EngineBecomes(r.st)
    /\ world' = [world EXCEPT !.refreshers =
                    SubSeq(@, 1, i - 1) \o SubSeq(@, i + 1, Len(@))]
    /\ UNCHANGED <<calls, last, procs>>
    /\ RefreshFrame

\* time passes
RefreshClock ==
    /\ now < MaxRefreshTime
    /\ now' = now + 1
    /\ UNCHANGED <<config, cache, namespaces, tags, stats, _stop_cleanup, calls,
                   disk, last, offstage>>

RefreshNext ==
    \/ \E key \in Keys, ttl \in RefreshTtlChoices : RefreshCall(key, ttl)
    \/ RefreshGet
    \/ RefreshPeek
    \/ \E value \in RefreshValues : RefreshLoad(value)
    \/ RefreshSet
    \/ \E i \in 1..MaxCalls, value \in RefreshValues : RefresherLoads(i, value)
    \/ \E i \in 1..MaxCalls : RefresherSets(i)
    \/ RefreshClock

RefreshSpec == RefreshInit /\ [][RefreshNext]_vars

(***************************************************************************)
(* A caller that sets, gets, clears and reads the hit rate                 *)
(* (self.stats.get_hit_rate(), which get_stats and to_dict report).        *)
(***************************************************************************)
RateFrame == UNCHANGED <<config, _stop_cleanup, now, calls, offstage>>

RateSet(key) ==
    /\ stats.sets < MaxRateSets
    /\ LET r == set_op(Engine, key, "v1", Some(0), "n1", {}, now) IN
       /\ EngineBecomes(r.st)
       /\ last' = Call("set", r.ret)
    /\ RateFrame

RateGet(key) ==
    /\ stats.hits + stats.misses < MaxGets
    /\ LET r == get_op(Engine, key, "n1", now) IN
       /\ EngineBecomes(r.st)
       /\ last' = Call("get", r.ret)
    /\ RateFrame

RateClear(namespace) ==
    /\ LET r == clear_op(Engine, namespace) IN
       /\ EngineBecomes(r.st)
       /\ last' = Call("clear", r.ret)
    /\ RateFrame

GetHitRate ==
    /\ last' = Call("get_hit_rate", get_hit_rate(stats))
    /\ UNCHANGED <<cache, namespaces, tags, stats, disk>>
    /\ RateFrame

HitRateNext ==
    \/ \E key \in Keys : RateSet(key)
    \/ \E key \in Keys : RateGet(key)
    \/ \E namespace \in NamespaceChoices : RateClear(namespace)
    \/ GetHitRate

HitRateSpec == Init /\ [][HitRateNext]_vars

(***************************************************************************)
(* get_multi, set_multi and delete_multi: loops of get, set and delete     *)
(* over the keys in the order given, each call under the lock on its own.  *)
(* A list of keys and a dict of items (in insertion order) are sequences.  *)
(***************************************************************************)
KeyLists == {<<>>, <<"x">>, <<"x", "y">>, <<"y", "x", "x">>}
ItemLists == {<<>>, <<<<"x", "v1">>>>, <<<<"x", "None">>, <<"y", "v1">>>>,
              <<<<"y", "big">>, <<"x", "v1">>>>}
BatchNamespace == "n1"

\* result[key] = value
DictSet(d, k, v) == [j \in DOMAIN d \cup {k} |-> IF j = k THEN v ELSE d[j]]

RECURSIVE get_multi_from(_, _, _, _, _)
\* for key in keys: value = self.get(key, ...); if value is not None: ...
get_multi_from(s, keys, namespace, t, result) ==
    IF keys = <<>> THEN [st |-> s, ret |-> result]
    ELSE LET r == get_op(s, Head(keys), namespace, t) IN
         get_multi_from(r.st, Tail(keys), namespace, t,
                        IF r.ret # DefaultVal THEN DictSet(result, Head(keys), r.ret)
                        ELSE result)

get_multi_op(s, keys, namespace, t) == get_multi_from(s, keys, namespace, t, EmptyDict)

RECURSIVE set_multi_from(_, _, _, _, _, _)
\* for key, value in items.items(): if self.set(...): success_count += 1
set_multi_from(s, items, ttl, namespace, t, success_count) ==
    IF items = <<>> THEN [st |-> s, ret |-> success_count]
    ELSE LET r == set_op(s, Head(items)[1], Head(items)[2], ttl, namespace, {}, t) IN
         set_multi_from(r.st, Tail(items), ttl, namespace, t,
                        IF r.ret THEN success_count + 1 ELSE success_count)

set_multi_op(s, items, ttl, namespace, t) ==
    set_multi_from(s, items, ttl, namespace, t, 0)

RECURSIVE delete_multi_from(_, _, _, _)
\* for key in keys: if self.delete(...): deleted_count += 1
delete_multi_from(s, keys, namespace, deleted_count) ==
    IF keys = <<>> THEN [st |-> s, ret |-> deleted_count]
    ELSE LET r == delete_op(s, Head(keys), namespace) IN
         delete_multi_from(r.st, Tail(keys), namespace,
                           IF r.ret THEN deleted_count + 1 ELSE deleted_count)

delete_multi_op(s, keys, namespace) == delete_multi_from(s, keys, namespace, 0)

GetMulti(keys) ==
    LET r == get_multi_op(Engine, keys, BatchNamespace, now) IN
    Commit(r, Call("get_multi", r.ret))

SetMulti(items, ttl) ==
    LET r == set_multi_op(Engine, items, ttl, BatchNamespace, now) IN
    Commit(r, Call("set_multi", r.ret))

DeleteMulti(keys) ==
    LET r == delete_multi_op(Engine, keys, BatchNamespace) IN
    Commit(r, Call("delete_multi", r.ret))

BatchNext ==
    \/ \E keys \in KeyLists : GetMulti(keys)
    \/ \E items \in ItemLists, ttl \in TtlChoices : SetMulti(items, ttl)
    \/ \E keys \in KeyLists : DeleteMulti(keys)
    \/ Tick

BatchSpec == Init /\ [][BatchNext]_vars

(***************************************************************************)
(* Callers whose keys and namespaces may contain the separator ':'         *)
(* (key and namespace are any str).                                        *)
(***************************************************************************)
SeparatorKeys == {"x", "n2:x"}
SeparatorNamespaces == {"n1", "n1:n2"}
SeparatorValues == {"v1", "v2"}

SeparatorSet(key, value, namespace) ==
    LET r == set_op(Engine, key, value, None, namespace, {}, now) IN
    Commit(r, Call("set", r.ret))

SeparatorNext ==
    \/ \E key \in SeparatorKeys, value \in SeparatorValues,
          namespace \in SeparatorNamespaces : SeparatorSet(key, value, namespace)
    \/ \E key \in SeparatorKeys, namespace \in SeparatorNamespaces : Get(key, namespace)
    \/ \E key \in SeparatorKeys, namespace \in SeparatorNamespaces :
            Delete(key, namespace)
    \/ Tick

SeparatorSpec == Init /\ [][SeparatorNext]_vars

(***************************************************************************)
(* The engine with the threads its construction starts:                    *)
(* "if self.enabled: self._start_cleanup_task()".  The sweeps of a started *)
(* thread are the CleanupExpired steps.                                    *)
(***************************************************************************)
_start_cleanup_task == [sweeper |-> Proc("test", 0)]

StartupInit ==
    /\ enabled \in EnabledChoices
    /\ max_size \in MaxSizeChoices
    /\ enable_persistence = FALSE
    /\ cleanup_interval = CACHE_CLEANUP_INTERVAL
    /\ Constructed
    /\ procs = IF enabled THEN _start_cleanup_task ELSE EmptyDict
    /\ lock = None
    /\ world = EmptyDict

StartupSpec == StartupInit /\ [][Next]_vars

(***************************************************************************)
(* CacheFactory.get_cache, called by two threads.  The body runs under     *)
(* "with cls._lock": the look-up in cls._instances, the construction of    *)
(* the class of the cache_type, the registration.  The specialised classes *)
(* add their defaults to kwargs with setdefault and pass all of kwargs to  *)
(* EnhancedCacheManager.__init__, which raises TypeError on a keyword that *)
(* is not one of its parameters; the exception leaves the with block,      *)
(* which releases the lock, and get_cache.  Instances are numbered in the  *)
(* order of their construction.                                            *)
(***************************************************************************)
CacheTypes == {"default", "query", "session", "product"}

\* the parameters of EnhancedCacheManager.__init__
InitParameters ==
    {"enabled", "default_ttl", "max_size", "max_memory_mb", "cleanup_interval",
     "enable_persistence", "persistence_path"}

\* the keywords a class sets with kwargs.setdefault before super().__init__
SetDefaults(cache_type) ==
    CASE cache_type = "query" -> {"default_ttl", "max_size", "namespace"}
      [] cache_type = "session" -> {"default_ttl", "max_size"}
      [] cache_type = "product" -> {"default_ttl", "max_size"}
      [] OTHER -> {}

\* super().__init__(**kwargs) raises TypeError
ConstructorRaises(cache_type) == ~(SetDefaults(cache_type) \subseteq InitParameters)

FactoryCaller(pc, cache_type, ret) == [pc |-> pc, cache_type |-> cache_type, ret |-> ret]

FactoryInit ==
    /\ enabled = TRUE
    /\ max_size \in MaxSizeChoices
    /\ enable_persistence = FALSE
    /\ cleanup_interval = CACHE_CLEANUP_INTERVAL
    /\ Constructed
    /\ procs = [th \in Threads |-> FactoryCaller("idle", "-", None)]
    /\ lock = None
    /\ world = [_instances |-> EmptyDict,
                constructed |-> [ct \in CacheTypes |-> 0],
                returned |-> [ct \in CacheTypes |-> {}]]

FactoryFrame ==
    UNCHANGED <<config, cache, namespaces, tags, stats, disk, _stop_cleanup, now>>

\* CacheFactory.get_cache(cache_type) is called
FactoryCall(th, cache_type) ==
    /\ procs[th].pc = "idle"
    /\ calls < MaxCalls
    /\ procs' = [procs EXCEPT ![th] = FactoryCaller("acquire", cache_type, None)]
    /\ calls' = calls + 1
    /\ last' = Call("get_cache", "running")
    /\ UNCHANGED <<lock, world>>
    /\ FactoryFrame

\* with cls._lock:
FactoryAcquire(th) ==
    /\ procs[th].pc = "acquire"
    /\ lock = None
    /\ lock' = Some(th)
    /\ procs' = [procs EXCEPT ![th].pc = "check"]
    /\ UNCHANGED <<calls, last, world>>
    /\ FactoryFrame

\* if cache_type in cls._instances: return cls._instances[cache_type]
FactoryCheck(th) ==
    /\ procs[th].pc = "check"
    /\ procs' = IF procs[th].cache_type \in DOMAIN world._instances
                THEN [procs EXCEPT ![th].pc = "release",
                                   ![th].ret = Some(world._instances[procs[th].cache_type])]
                ELSE [procs EXCEPT ![th].pc = "construct"]
    /\ UNCHANGED <<calls, last, lock, world>>
    /\ FactoryFrame

\* cache = QueryCacheManager(**kwargs), ... or EnhancedCacheManager(**kwargs)
FactoryConstruct(th) ==
    /\ procs[th].pc = "construct"
    /\ IF ConstructorRaises(procs[th].cache_type)
       THEN /\ procs' = [procs EXCEPT ![th].pc = "release", ![th].ret = None]
            /\ UNCHANGED world
       ELSE LET id == 1 + Cardinality(DOMAIN world._instances) IN
            /\ procs' = [procs EXCEPT ![th].pc = "register", ![th].ret = Some(id)]
            /\ world' = [world EXCEPT !.constructed[procs[th].cache_type] = @ + 1]
    /\ UNCHANGED <<calls, last, lock>>
    /\ FactoryFrame

\* cls._instances[cache_type] = cache
FactoryRegister(th) ==
    /\ procs[th].pc = "register"
    /\ world' = [world EXCEPT !._instances =
                    DictSet(@, procs[th].cache_type, TheVal(procs[th].ret))]
    /\ procs' = [procs EXCEPT ![th].pc = "release"]
    /\ UNCHANGED <<calls, last, lock>>
    /\ FactoryFrame

\* the with block is left, by return cache or by the exception
FactoryRelease(th) ==
    /\ procs[th].pc = "release"
    /\ lock' = None
    /\ world' = [world EXCEPT !.returned[procs[th].cache_type] = @ \cup {procs[th].ret}]
    /\ last' = Call("get_cache", IF procs[th].ret = None THEN "TypeError" ELSE "engine")
    /\ procs' = [procs EXCEPT ![th] = FactoryCaller("idle", "-", None)]
    /\ UNCHANGED calls
    /\ FactoryFrame

FactoryNext ==
    \/ \E th \in Threads, cache_type \in CacheTypes : FactoryCall(th, cache_type)
    \/ \E th \in Threads : FactoryAcquire(th)
    \/ \E th \in Threads : FactoryCheck(th)
    \/ \E th \in Threads : FactoryConstruct(th)
    \/ \E th \in Threads : FactoryRegister(th)
    \/ \E th \in Threads : FactoryRelease(th)

FactorySpec == FactoryInit /\ [][FactoryNext]_vars

(***************************************************************************)
(* Properties                                                              *)
(***************************************************************************)
Entries == {cache[i] : i \in 1..Len(cache)}
StoreKeys == CacheKeys(cache)
EntryOf(k) == CacheGet(cache, k)

RECURSIVE SumSizes(_)
SumSizes(c) == IF c = <<>> THEN 0 ELSE Head(c).size_bytes + SumSizes(Tail(c))

\* C1: a full key is in the store iff it is in the key set of its entry's
\* namespace and in the key set of each of its entry's tags: every stored
\* entry is indexed under its namespace and all its tags, and every key an
\* index holds is a stored entry of that namespace, or carrying that tag.
IndexConsistency ==
    /\ Cardinality(StoreKeys) = Len(cache)
    /\ \A e \in Entries :
          /\ e.namespace \in DOMAIN namespaces
          /\ e.key \in namespaces[e.namespace]
          /\ \A t \in e.tags : t \in DOMAIN tags /\ e.key \in tags[t]
    /\ \A n \in DOMAIN namespaces : \A k \in namespaces[n] :
          k \in StoreKeys /\ EntryOf(k).namespace = n
    /\ \A t \in DOMAIN tags : \A k \in tags[t] :
          k \in StoreKeys /\ t \in EntryOf(k).tags

\* a set has evicted a tagged entry while another tagged entry is stored
IndexConsistencyWitness ==
    /\ last.op = "set"
    /\ stats.evictions >= 1
    /\ \E e \in Entries : e.tags = {"t1", "t2"}
    /\ "t1" \in DOMAIN tags /\ Cardinality(tags["t1"]) = 1

\* C2: stats.total_size_bytes is the sum of size_bytes over the stored entries.
SizeAccounting == stats.total_size_bytes = SumSizes(cache)

\* entries were stored, one was removed again, and one is left
SizeAccountingWitness ==
    /\ stats.sets >= 2
    /\ last.op \in {"delete", "get", "cleanup_expired", "invalidate_by_tag",
                    "invalidate_by_pattern", "exists"}
    /\ Len(cache) = 1
    /\ stats.total_size_bytes > 0

\* C5: with max_size >= 1 the store never holds more than max_size entries.
EntryCountBound == max_size >= 1 => Len(cache) <= max_size

\* the store is full after a set that had to evict
EntryCountBoundWitness ==
    /\ last.op = "set"
    /\ Len(cache) = max_size
    /\ stats.evictions >= 1

\* C6: stats.total_size_bytes never exceeds max_memory_bytes.
MemoryBudgetBound == stats.total_size_bytes <= max_memory_bytes

\* the second set found room for its value only by emptying the store
MemoryBudgetBoundWitness ==
    /\ last.op = "set"
    /\ max_size = 2
    /\ stats.sets = 2
    /\ stats.evictions = 1
    /\ Len(cache) = 1

\* full_key is in neither the store nor any bucket of the two indices of st
Gone(st, full_key) ==
    /\ full_key \notin CacheKeys(st.cache)
    /\ \A n \in DOMAIN st.namespaces : full_key \notin st.namespaces[n]
    /\ \A t \in DOMAIN st.tags : full_key \notin st.tags[t]

Live(full_key, t) == full_key \in StoreKeys /\ ~is_expired(EntryOf(full_key), t)

\* the set of a key that is not stored, made while the store holds max_size
\* entries, evicts exactly one entry, a least recently touched one
\* (last_accessed is written by set, by a get hit and by touch), and keeps
\* every other entry
EvictsOneLru(r, full_key) ==
    \E victim \in StoreKeys :
        /\ CacheKeys(r.st.cache) = (StoreKeys \ {victim}) \cup {full_key}
        /\ \A e \in Entries : EntryOf(victim).last_accessed <= e.last_accessed
        /\ r.st.stats.evictions = stats.evictions + 1

\* C3 as stated: whenever set inserts a new key into a store holding
\* max_size entries, exactly one entry is evicted and it is the least
\* recently touched one; every other entry stays.
StrictLruExactlyOne ==
    \A key \in Keys, namespace \in Namespaces :
        (_make_key(key, namespace) \notin StoreKeys /\ Len(cache) = max_size) =>
            \A value \in Values, ttl \in TtlChoices, tgs \in TagSets :
                LET r == set_op(Engine, key, value, ttl, namespace, tgs, now) IN
                r.ret = TRUE => EvictsOneLru(r, _make_key(key, namespace))

\* C3 as amended: the same, provided the memory budget admits the new value
\* once the entry at the least-recently-used end is gone (otherwise the
\* memory loop goes on evicting).
StrictLruWithinBudget ==
    \A key \in Keys, namespace \in Namespaces :
        (_make_key(key, namespace) \notin StoreKeys /\ Len(cache) = max_size) =>
            \A value \in Values, ttl \in TtlChoices, tgs \in TagSets :
                stats.total_size_bytes - Head(cache).size_bytes + PickleLen(value)
                        <= max_memory_bytes =>
                    LET r == set_op(Engine, key, value, ttl, namespace, tgs, now) IN
                    r.ret = TRUE => EvictsOneLru(r, _make_key(key, namespace))

\* a third key was set into a full store of two and one entry was evicted
StrictLruWitness ==
    /\ last.op = "set"
    /\ max_size = 2
    /\ Len(cache) = 2
    /\ stats.sets = 3
    /\ stats.evictions = 1

\* a set that returns true stores the value: a get of the same key and
\* namespace, at any time at which the entry has not expired, returns it
\* (at every state in which a call can still be made)
SetThenGet ==
    calls < MaxCalls =>
        \A key \in Keys, value \in Values, ttl \in TtlChoices,
           namespace \in Namespaces, tgs \in TagSets :
            LET r == set_op(Engine, key, value, ttl, namespace, tgs, now)
                full_key == _make_key(key, namespace)
            IN r.ret = TRUE =>
                 \A t \in now..MaxTime :
                    ~is_expired(CacheGet(r.st.cache, full_key), t)
                        => get_op(r.st, key, namespace, t).ret = value

\* a get of a stored entry that has not expired returns the stored value
StoredValueReturned ==
    \A key \in Keys, namespace \in Namespaces :
        Live(_make_key(key, namespace), now) =>
            get_op(Engine, key, namespace, now).ret
                = EntryOf(_make_key(key, namespace)).value

\* an entry that stays in the store keeps its value unless a set is made
ValueKeptUntilSet ==
    \A full_key \in StoreKeys :
        (full_key \in StoreKeys' /\ last'.op # "set") =>
            EntryOf(full_key)'.value = EntryOf(full_key).value

\* C4: if set(k, v, namespace=n) returns true and get(k, namespace=n)
\* follows with no eviction, expiry or removal of that entry in between,
\* the get returns v.
SetGetRoundTrip ==
    /\ [](SetThenGet /\ StoredValueReturned)
    /\ [][ValueKeptUntilSet]_vars

\* a get that followed a set returned the value set
SetGetRoundTripWitness ==
    /\ last.op = "get"
    /\ last.ret = "v2"
    /\ stats.sets = 1
    /\ calls = 2

\* C7: a set of a value larger than the memory budget returns false and
\* leaves store, indices, recency order, total_size_bytes and counters as
\* they were.
OversizeRejection ==
    \A key \in Keys, value \in Values, ttl \in TtlChoices,
       namespace \in Namespaces, tgs \in TagSets :
        PickleLen(value) > max_memory_bytes
            => set_op(Engine, key, value, ttl, namespace, tgs, now)
                  = [st |-> Engine, ret |-> FALSE]

\* an enabled engine holding an entry has refused a set
OversizeRejectionWitness ==
    /\ enabled
    /\ last.op = "set"
    /\ last.ret = FALSE
    /\ Len(cache) >= 1

LazyExpiration(key, namespace) ==
    LET full_key == _make_key(key, namespace)
        r == get_op(Engine, key, namespace, now)
    IN /\ (full_key \in StoreKeys /\ is_expired(EntryOf(full_key), now)) =>
            /\ r.ret = DefaultVal
            /\ Gone(r.st, full_key)
            /\ r.st.stats.misses = stats.misses + 1
            /\ r.st.stats.expirations = stats.expirations + 1
       /\ full_key \notin StoreKeys =>
            /\ r.ret = DefaultVal
            /\ r.st.stats = [stats EXCEPT !.misses = @ + 1]

\* C8 as stated: a get of a present but expired key returns the default,
\* removes the entry from store and indices and adds one to misses and to
\* expirations; a get of an absent key returns the default and adds one to
\* misses only.
LazyExpirationOnGet ==
    \A key \in Keys, namespace \in Namespaces : LazyExpiration(key, namespace)

\* C8 as amended: the same on an enabled engine.
LazyExpirationOnEnabledGet ==
    enabled => \A key \in Keys, namespace \in Namespaces : LazyExpiration(key, namespace)

\* the second call, a get, found the entry of the first call expired
LazyExpirationWitness ==
    /\ last.op = "get"
    /\ last.ret = DefaultVal
    /\ calls = 2
    /\ stats.sets = 1
    /\ stats.misses = 1
    /\ stats.expirations = 1
    /\ cache = <<>>

GetCounts ==
    enabled =>
        \A key \in Keys, namespace \in Namespaces :
            LET full_key == _make_key(key, namespace)
                r == get_op(Engine, key, namespace, now)
            IN IF Live(full_key, now)
               THEN /\ r.ret = EntryOf(full_key).value
                    /\ r.st.stats.hits = stats.hits + 1
                    /\ r.st.stats.misses = stats.misses
               ELSE /\ r.ret = DefaultVal
                    /\ r.st.stats.hits = stats.hits
                    /\ r.st.stats.misses = stats.misses + 1

OnlyGetCounts ==
    last'.op # "get" => stats'.hits = stats.hits /\ stats'.misses = stats.misses

\* C9: on an enabled engine a get adds one to exactly one of hits and misses
\* (to hits iff it returns the value of a live entry), and a step of any other
\* operation leaves hits and misses as they were.
HitMissAccounting == []GetCounts /\ [][OnlyGetCounts]_vars

\* one get has hit and one has missed
HitMissAccountingWitness ==
    /\ enabled
    /\ last.op = "get"
    /\ stats.hits = 1
    /\ stats.misses = 1

DeleteResult ==
    \A key \in Keys, namespace \in Namespaces :
        LET full_key == _make_key(key, namespace)
            r == delete_op(Engine, key, namespace)
        IN /\ r.ret = (full_key \in StoreKeys)
           /\ full_key \in StoreKeys =>
                /\ Gone(r.st, full_key)
                /\ r.st.stats.deletes = stats.deletes + 1
           /\ full_key \notin StoreKeys => r.st = Engine
           /\ get_op(r.st, key, namespace, now).ret = DefaultVal
           /\ exists_op(r.st, key, namespace, now).ret = FALSE

AbsentUntilSet ==
    /\ \A key \in Keys, namespace \in Namespaces :
          _make_key(key, namespace) \notin StoreKeys =>
              /\ get_op(Engine, key, namespace, now).ret = DefaultVal
              /\ exists_op(Engine, key, namespace, now).ret = FALSE

OnlySetStores == CacheKeys(cache') \subseteq StoreKeys \/ last'.op = "set"

\* C10: delete returns true iff the full key was stored; then the entry leaves
\* store and indices and deletes grows by one, otherwise nothing changes.
\* After it get returns the default and exists is false, and so they do while
\* the key is absent, which it stays until a set.
DeleteContract == [](DeleteResult /\ AbsentUntilSet) /\ [][OnlySetStores]_vars

\* set, delete, get: the delete succeeded and the get found nothing
DeleteContractWitness ==
    /\ last.op = "get"
    /\ last.ret = DefaultVal
    /\ calls = 3
    /\ stats.sets = 1
    /\ stats.deletes = 1
    /\ stats.misses = 1

\* C11: invalidate_by_tag(t) removes every entry that carries t and no other
\* entry (the others keep value, metadata and recency position, whatever
\* their namespace and key), returns the number removed, and leaves the tag
\* index without a bucket for t.
TagInvalidationExact ==
    \A tag \in TagNames :
        LET r == invalidate_by_tag_op(Engine, tag)
            tagged == {k \in StoreKeys : tag \in EntryOf(k).tags}
        IN /\ r.st.cache = SelectSeq(cache, LAMBDA e : tag \notin e.tags)
           /\ \A k \in tagged : Gone(r.st, k)
           /\ r.ret = Cardinality(tagged)
           /\ tag \notin DOMAIN r.st.tags

\* invalidate_by_tag("t1") removed one entry and kept an entry of the same
\* literal key in the other namespace, tagged "t2" only
TagInvalidationWitness ==
    /\ last.op = "invalidate_by_tag"
    /\ last.ret = 1
    /\ "t1" \notin DOMAIN tags
    /\ Len(cache) = 1
    /\ cache[1].key = "n2:x"
    /\ cache[1].tags = {"t2"}
    /\ DictGet(namespaces, "n1") = {}
    /\ "n1" \in DOMAIN namespaces

\* C12: clear() with no namespace returns the number of entries that were
\* stored, leaves store and both indices empty and total_size_bytes = 0, and
\* leaves hits, misses, sets, deletes, expirations and evictions unchanged.
FullClear ==
    LET r == clear_op(Engine, None) IN
    /\ r.ret = Len(cache)
    /\ r.st.cache = <<>>
    /\ r.st.namespaces = EmptyDict
    /\ r.st.tags = EmptyDict
    /\ r.st.stats = [stats EXCEPT !.total_size_bytes = 0]

\* a full clear emptied a store of one entry, after a get had hit
FullClearWitness ==
    /\ last.op = "clear"
    /\ last.ret = 1
    /\ namespaces = EmptyDict
    /\ stats.sets = 1
    /\ stats.hits = 1
    /\ stats.total_size_bytes = 0

\* C13: for namespaces n1 # n2 and a key x the full keys differ, and a set of
\* x under n1 leaves the entry of x under n2 as it was unless it evicts it:
\* a get of x under n2 then returns that entry's value if it is stored and
\* not expired, and the default otherwise, whatever was set under n1.
NamespaceIsolation ==
    calls < MaxCalls =>
        \A key \in Keys, n1 \in Namespaces : \A n2 \in Namespaces \ {n1} :
            LET k1 == _make_key(key, n1)
                k2 == _make_key(key, n2)
            IN /\ k1 # k2
               /\ \A value \in Values, ttl \in TtlChoices, tgs \in TagSets :
                    LET r == set_op(Engine, key, value, ttl, n1, tgs, now)
                        g == get_op(r.st, key, n2, now)
                    IN r.ret = TRUE =>
                        /\ k2 \in CacheKeys(r.st.cache) =>
                              /\ k2 \in StoreKeys
                              /\ CacheGet(r.st.cache, k2) = EntryOf(k2)
                        /\ (k2 \in StoreKeys /\ r.st.stats.evictions = stats.evictions)
                              => k2 \in CacheKeys(r.st.cache)
                        /\ g.ret = IF k2 \in CacheKeys(r.st.cache) /\ Live(k2, now)
                                   THEN EntryOf(k2).value ELSE DefaultVal

\* the key x is stored under both namespaces, with different tags, and a get
\* of it under n1 has hit the entry of n1 and not that of n2
NamespaceIsolationWitness ==
    /\ last.op = "get"
    /\ last.ret = "v1"
    /\ Len(cache) = 2
    /\ cache[1].key = "n2:x"
    /\ cache[1].tags = {"t2"}
    /\ cache[1].hits = 0
    /\ cache[2].key = "n1:x"
    /\ cache[2].tags = {}
    /\ cache[2].hits = 1

Counters == {"hits", "misses", "sets", "deletes", "expirations", "evictions"}

NoCounterDecreases == \A c \in Counters : stats'[c] >= stats[c]

\* C14: across every step of every operation sequence, clear and stop
\* included, none of hits, misses, sets, deletes, expirations and evictions
\* decreases.
MonotoneCounters == [][NoCounterDecreases]_vars

\* the engine was stopped after a set and a hit, and the counts are there
MonotoneCountersWitness ==
    /\ last.op = "stop"
    /\ _stop_cleanup
    /\ stats.sets = 1
    /\ stats.hits = 1

\* C15: extend_ttl on a key that is absent, or whose entry is expired, or
\* whose entry has no expiry, returns false and changes nothing (entries,
\* order, indices, counters).
ExtendTtlFailure ==
    \A key \in Keys, namespace \in Namespaces, additional_seconds \in ExtendChoices :
        LET full_key == _make_key(key, namespace) IN
        (\/ full_key \notin StoreKeys
         \/ is_expired(EntryOf(full_key), now)
         \/ EntryOf(full_key).expires_at = None)
            => extend_ttl_op(Engine, key, additional_seconds, namespace, now)
                  = [st |-> Engine, ret |-> FALSE]

\* extend_ttl was refused while the store held one entry, expired by then
ExtendTtlFailureWitness ==
    /\ last.op = "extend_ttl"
    /\ last.ret = FALSE
    /\ calls = 2
    /\ Len(cache) = 1
    /\ is_expired(cache[1], now)

\* C16: exists returns true iff the entry is stored and not expired; an
\* expired entry is removed from store and indices and false is returned; in
\* every case hits and misses stay, and a live entry (hit_count, position) and
\* all the rest are unchanged.
ExistsContract ==
    \A key \in Keys, namespace \in Namespaces :
        LET full_key == _make_key(key, namespace)
            r == exists_op(Engine, key, namespace, now)
        IN /\ r.ret = Live(full_key, now)
           /\ (full_key \in StoreKeys /\ is_expired(EntryOf(full_key), now)) =>
                /\ Gone(r.st, full_key)
                /\ r.st.cache = DelKey(cache, full_key)
           /\ r.st.stats.hits = stats.hits
           /\ r.st.stats.misses = stats.misses
           /\ Live(full_key, now) => r.st = Engine

\* exists found the one entry expired and removed it
ExistsContractWitness ==
    /\ last.op = "exists"
    /\ last.ret = FALSE
    /\ calls = 2
    /\ stats.sets = 1
    /\ cache = <<>>

\* C17: touch on a stored, non-expired entry returns true, adds one to its
\* hit_count and makes it the most recently used entry (no longer the next
\* eviction victim while another entry exists); on an absent or expired key
\* it returns false and changes nothing.
TouchContract ==
    \A key \in Keys, namespace \in Namespaces :
        LET full_key == _make_key(key, namespace)
            r == touch_op(Engine, key, namespace, now)
        IN IF Live(full_key, now)
           THEN /\ r.ret = TRUE
                /\ r.st.cache = Append(DelKey(cache, full_key),
                                       [EntryOf(full_key) EXCEPT
                                           !.hits = @ + 1, !.last_accessed = now])
                /\ Len(cache) > 1 => Head(r.st.cache).key # full_key
                /\ r.st.namespaces = namespaces
                /\ r.st.tags = tags
                /\ r.st.stats = stats
           ELSE r = [st |-> Engine, ret |-> FALSE]

\* the entry set first was touched and stands behind the entry set after it
TouchContractWitness ==
    /\ last.op = "touch"
    /\ last.ret = TRUE
    /\ Len(cache) = 2
    /\ cache[2].hits = 1
    /\ cache[2].created_at < cache[1].created_at

\* C18: a successful set on a key already in the store leaves exactly one
\* entry for the full key, at the most-recently-used end, with the new value,
\* hit_count 0 and the new tags only (the key is in the bucket of a tag iff
\* the new entry carries it), the new size accounted in place of the old;
\* sets grows by one and deletes stays (at every state in which a call can
\* still be made).
OverwriteReplaces ==
    \A key \in Keys, namespace \in Namespaces :
        (calls < MaxCalls /\ _make_key(key, namespace) \in StoreKeys) =>
            \A value \in Values, ttl \in TtlChoices, tgs \in TagSets :
                LET full_key == _make_key(key, namespace)
                    r == set_op(Engine, key, value, ttl, namespace, tgs, now)
                    c2 == r.st.cache
                IN r.ret = TRUE =>
                    /\ Cardinality({i \in 1..Len(c2) : c2[i].key = full_key}) = 1
                    /\ c2[Len(c2)].key = full_key
                    /\ c2[Len(c2)].value = value
                    /\ c2[Len(c2)].hits = 0
                    /\ c2[Len(c2)].tags = tgs
                    /\ c2[Len(c2)].size_bytes = PickleLen(value)
                    /\ tgs \subseteq DOMAIN r.st.tags
                    /\ \A tg \in DOMAIN r.st.tags :
                          full_key \in r.st.tags[tg] <=> tg \in tgs
                    /\ r.st.stats.total_size_bytes = SumSizes(c2)
                    /\ r.st.stats.evictions = stats.evictions =>
                          r.st.stats.total_size_bytes =
                              stats.total_size_bytes - EntryOf(full_key).size_bytes
                                  + PickleLen(value)
                    /\ r.st.stats.sets = stats.sets + 1
                    /\ r.st.stats.deletes = stats.deletes

\* an entry tagged t1 and t2 was overwritten, with no eviction, by one tagged
\* t2 only
OverwriteReplacesWitness ==
    /\ last.op = "set"
    /\ calls = 2
    /\ stats.sets = 2
    /\ stats.evictions = 0
    /\ Len(cache) = 1
    /\ cache[1].tags = {"t2"}
    /\ DictGet(tags, "t2") = {cache[1].key}
    /\ "t1" \in DOMAIN tags
    /\ tags["t1"] = {}

\* the ttl arguments a set is tried with: omitted, negative, zero, positive
TtlProbes == {None, Some(-1), Some(0), Some(2)}

\* C19: set with ttl omitted uses default_ttl; an effective ttl > 0 gives
\* expires_at = time of set + ttl (the entry is found up to that time and not
\* after it); an effective ttl <= 0 gives an entry with no expiry, which get,
\* exists, touch and the sweep find however much time passes.
TtlSelection ==
    calls < MaxCalls =>
        \A key \in Keys, namespace \in Namespaces, value \in Values, ttl \in TtlProbes :
            LET full_key == _make_key(key, namespace)
                r == set_op(Engine, key, value, ttl, namespace, {}, now)
                effective == IF ttl = None THEN default_ttl ELSE TheVal(ttl)
            IN r.ret = TRUE =>
                /\ effective > 0 =>
                     /\ CacheGet(r.st.cache, full_key).expires_at = Some(now + effective)
                     /\ \A t \in now..FarFuture :
                           (get_op(r.st, key, namespace, t).ret = value)
                               <=> (t <= now + effective)
                /\ effective <= 0 =>
                     /\ CacheGet(r.st.cache, full_key).expires_at = None
                     /\ \A t \in now..FarFuture :
                           /\ get_op(r.st, key, namespace, t).ret = value
                           /\ exists_op(r.st, key, namespace, t).ret = TRUE
                           /\ touch_op(r.st, key, namespace, t).ret = TRUE
                           /\ full_key \in CacheKeys(cleanup_expired_op(r.st, t).st.cache)

\* an entry set without expiry at the start was found by get at the end
TtlSelectionWitness ==
    /\ last.op = "get"
    /\ last.ret = "v1"
    /\ now = MaxTime
    /\ Len(cache) = 1
    /\ cache[1].expires_at = None
    /\ cache[1].created_at = StartTime
    /\ cache[1].hits = 1

\* C20: one run of cleanup_expired removes every entry expired at that moment
\* from store and indices, leaves the other entries and their order as they
\* were, adds the number removed to expirations and returns it, and leaves
\* hits, misses, sets, deletes and evictions unchanged.
SweepContract ==
    LET r == cleanup_expired_op(Engine, now)
        expired == {k \in StoreKeys : is_expired(EntryOf(k), now)}
    IN /\ r.st.cache = SelectSeq(cache, LAMBDA e : ~is_expired(e, now))
       /\ \A k \in expired : Gone(r.st, k)
       /\ r.ret = Cardinality(expired)
       /\ r.st.stats.expirations = stats.expirations + Cardinality(expired)
       /\ \A c \in Counters \ {"expirations"} : r.st.stats[c] = stats[c]

\* the sweep removed the expired one of two entries
SweepContractWitness ==
    /\ last.op = "cleanup_expired"
    /\ last.ret = 1
    /\ calls = 3
    /\ Len(cache) = 1
    /\ stats.sets = 2
    /\ stats.expirations = 1

(***************************************************************************)
(* Persistence                                                             *)
(***************************************************************************)
\* a key that leaves the store in a delete, a set (eviction, overwrite), a
\* get or an exists (lazy expiration) or a sweep has no file afterwards
RemovedCopyGone ==
    \A k \in StoreKeys :
        (/\ k \notin CacheKeys(cache')
         /\ last'.op \in {"delete", "set", "get", "exists", "cleanup_expired"})
            => _hash_key(k) \notin DOMAIN disk'.files

\* C30: with persistence on and no I/O failure, whenever an entry leaves the
\* store by delete, by LRU eviction or by expiration (lazy or sweep) its
\* durable copy is removed too.
DurableCopiesFollowRemovals == [][RemovedCopyGone]_vars

(***************************************************************************)
(* Shutdown of the cleanup thread                                          *)
(***************************************************************************)
\* once stop() has returned the cleanup thread has ended
EndedAtReturn == procs.stopper.pc = "returned" => procs.sweeper.pc = "ended"

\* once stop() has returned no step is a sweep
NoSweepAfterReturn == procs.stopper.pc = "returned" => last'.op # "sweep"

\* C21: once stop() has returned, the cleanup thread has terminated and no
\* further sweep runs.
SweeperShutdown == []EndedAtReturn /\ [][NoSweepAfterReturn]_vars

(***************************************************************************)
(* Termination of set and validation of the configuration                  *)
(***************************************************************************)
InSet == procs.caller.pc \in {"count_loop", "memory_loop", "insert"}

\* C22: every call to set on any constructed engine terminates.
EvictionTerminates == InSet ~> procs.caller.pc = "idle"

\* C23: no engine with max_size <= 0 is constructed: an engine that is past
\* __init__ has max_size >= 1.
ConfigurationValidated == procs.caller.pc # "new" => max_size >= 1

(***************************************************************************)
(* Lock discipline                                                         *)
(***************************************************************************)
\* the statements that read or write the store or an index: the iterator
\* steps of the exporter and the body of set
AtSharedAccess(th) ==
    \/ th = "exporter" /\ procs.exporter.pc \in {"iter", "next"}
    \/ th = "writer" /\ procs.writer.pc = "locked"

\* a thread at such a statement holds the lock
HoldsLockAtAccess == \A th \in DOMAIN procs : AtSharedAccess(th) => lock = Some(th)

\* no thread executes such a statement while the other is inside an operation
NoAccessBesideOperation ==
    \A th \in DOMAIN procs :
        (AtSharedAccess(th) /\ procs'[th] # procs[th]) => lock \in {None, Some(th)}

\* C24: every engine operation that reads or mutates the store or an index
\* (export_stats among them) makes all those accesses while holding the
\* engine's lock, so no thread observes the shared structures while another
\* thread is inside an operation.
LockDiscipline == []HoldsLockAtAccess /\ [][NoAccessBesideOperation]_vars

(***************************************************************************)
(* Caching strategies                                                      *)
(***************************************************************************)
StrategyKey(th) == _make_key(procs[th].key, StrategyNamespace)

\* the thread executes cache_aside's cache.get
AtAsideGet(th) == procs[th].pc = "get" /\ procs'[th] # procs[th]

\* a live entry: its value is returned and the loader is not invoked
HitSkipsLoader ==
    \A th \in Threads :
        (AtAsideGet(th) /\ Live(StrategyKey(th), now)) =>
            /\ procs'[th].pc = "idle"
            /\ last' = Call("cache_aside", EntryOf(StrategyKey(th)).value)
            /\ world' = world

\* a missing or expired key: one loader invocation, then the set of the
\* loaded value, then the return of it
MissLoadsAndSets ==
    \A th \in Threads :
        /\ (AtAsideGet(th) /\ ~Live(StrategyKey(th), now)) => procs'[th].pc = "load"
        /\ (procs[th].pc = "load" /\ procs'[th] # procs[th]) =>
               /\ procs'[th].pc = "set"
               /\ world'.loads[procs[th].key] = world.loads[procs[th].key] + 1
        /\ (procs[th].pc = "set" /\ procs'[th] # procs[th]) =>
               /\ procs'[th].pc = "idle"
               /\ StrategyKey(th) \in CacheKeys(cache')
               /\ CacheGet(cache', StrategyKey(th)).value = procs[th].value
               /\ last' = Call("cache_aside", procs[th].value)

\* C25: cache_aside on a key that holds a live entry returns the cached
\* value and does not invoke the loader; on a missing or expired key it
\* invokes the loader once, sets the loaded value and returns it, so that
\* the next cache_aside on the key finds the live entry.
CacheAsideContract == [][HitSkipsLoader /\ MissLoadsAndSets]_vars

\* a thread that misses while another thread is already loading or setting
\* the same key goes on to the loader itself
MissNotShared ==
    \A th \in Threads : \A other \in Threads \ {th} :
        ( /\ AtAsideGet(th)
          /\ ~Live(StrategyKey(th), now)
          /\ procs[other].pc \in {"load", "set"}
          /\ procs[other].key = procs[th].key ) => procs'[th].pc = "load"

\* after a thread's set the key holds the value that thread loaded
LastSetWins ==
    \A th \in Threads :
        (procs[th].pc = "set" /\ procs'[th] # procs[th]) =>
            CacheGet(cache', StrategyKey(th)).value = procs[th].value

\* C26: cache_aside has no single-flight: a thread that misses on a key
\* another thread is loading invokes the loader too, and the set that runs
\* last determines the cached value.
NoSingleFlight == [][MissNotShared /\ LastSetWins]_vars

\* two loader invocations for one miss episode of x (no hit, no expiry, no
\* eviction between them), the later set's value stored
NoSingleFlightWitness ==
    /\ world.loads["x"] = 2 /\ world.loads["y"] = 0
    /\ stats.misses = 2 /\ stats.hits = 0
    /\ stats.expirations = 0 /\ stats.evictions = 0
    /\ stats.sets = 2
    /\ last = Call("cache_aside", "v2")
    /\ world.source = "v2"
    /\ Len(cache) = 1 /\ cache[1].value = "v2"

\* the caller's record belongs to a call of the strategy, running or ended
InStrategy(strategy) == procs.caller.strategy = strategy

\* the value is in the cache only after the writer has returned, and after
\* a failed writer the key's entry is the one of before the call
WriterBeforeSet ==
    InStrategy("write_through") =>
        /\ procs.caller.did_set => procs.caller.wrote
        /\ last = Call("write_through", "raised") =>
               Stored(cache, procs.caller.key) = procs.caller.before

\* the cache is untouched by write_through until the writer has returned
NoSetBeforeWriter ==
    (InStrategy("write_through") /\ procs.caller.at # 0 /\ ~procs.caller.wrote)
        => cache' = cache

\* C27: write_through calls the writer before touching the cache, sets the
\* value only after the writer has returned, and leaves the key's entry as
\* it was when the writer raises.
WriteThroughOrdering == []WriterBeforeSet /\ [][NoSetBeforeWriter]_vars

\* a failed write_through over an entry written by an earlier one
WriteThroughWitness ==
    /\ last = Call("write_through", "raised")
    /\ procs.caller.value = "v2"
    /\ procs.caller.before # None
    /\ Stored(cache, procs.caller.key) = procs.caller.before
    /\ TheVal(procs.caller.before).value = "v1"
    /\ world.truth = "v1"

\* the deferred writer is started once, after the set, and the call has
\* returned when it is started; every started writer runs at most once
SetBeforeStart ==
    /\ InStrategy("write_behind") =>
           /\ procs.caller.started <= 1
           /\ procs.caller.started = 1 => procs.caller.did_set
           /\ last = Call("write_behind", "None") => procs.caller.started = 1
    /\ world.ran + Len(world.deferred) = world.started

\* the call returns in the step that starts the writer, which is then still
\* to run; a writer that runs, and one that fails, leaves the store alone and
\* is not started again
FireAndForget ==
    /\ (InStrategy("write_behind") /\ procs'.caller.started # procs.caller.started
        /\ procs.caller.at # 0) =>
           /\ procs'.caller.at = 0
           /\ last' = Call("write_behind", "None")
           /\ Len(world'.deferred) = Len(world.deferred) + 1
    /\ world'.ran # world.ran =>
           /\ Engine' = Engine
           /\ Len(world'.deferred) = Len(world.deferred) - 1
           /\ world'.started = world.started

\* C28: write_behind sets the value into the cache before it starts the
\* deferred writer, returns without waiting for it, starts it once per call,
\* and a writer that fails is not run again and leaves the cache entry alone.
WriteBehindOrdering == []SetBeforeStart /\ [][FireAndForget]_vars

\* write_behind has returned with its writer still to run, after the writer
\* of an earlier call has failed
WriteBehindWitness ==
    /\ last = Call("write_behind", "None")
    /\ world.failed = 1 /\ world.ran = 1
    /\ world.deferred = <<"v2">>
    /\ world.truth = "-"
    /\ Stored(cache, procs.caller.key) # None
    /\ TheVal(Stored(cache, procs.caller.key)).value = "v2"
    /\ stats.sets = 2

\* the caller executes the statement at pc
RefreshAt(pc) == procs.caller.pc = pc /\ procs'.caller # procs.caller

\* the entry's remaining TTL is less than ttl x (1 - refresh_threshold)
BelowThreshold(entry, ttl, t) ==
    /\ entry.expires_at # None
    /\ TheVal(get_ttl_remaining(entry, t)) * 100 < ttl * (100 - RefreshThresholdPct)

\* a hit returns the cached value at once, and a reload is started exactly
\* when the entry has an expiry and its remaining TTL is below the threshold
HitReturnsAndRefreshes ==
    /\ RefreshAt("get") =>
           IF Live(_make_key(procs.caller.key, StrategyNamespace), now)
           THEN /\ procs'.caller.pc = "peek"
                /\ procs'.caller.value =
                       EntryOf(_make_key(procs.caller.key, StrategyNamespace)).value
           ELSE procs'.caller.pc = "load"
    /\ RefreshAt("peek") =>
           /\ procs'.caller.pc = "idle"
           /\ last' = Call("refresh_ahead", procs.caller.value)
           /\ world'.loads = world.loads
           /\ LET entry == Stored(cache, procs.caller.key) IN
              entry # None =>
                  (Len(world'.refreshers) = Len(world.refreshers) + 1
                      <=> BelowThreshold(TheVal(entry), procs.caller.ttl, now))

\* a miss loads, sets with ttl and returns the loaded value
MissLoadsSynchronously ==
    /\ RefreshAt("load") => procs'.caller.pc = "set" /\ world'.loads = world.loads + 1
    /\ RefreshAt("set") =>
           /\ procs'.caller.pc = "idle"
           /\ Stored(cache', procs.caller.key) # None
           /\ TheVal(Stored(cache', procs.caller.key)).value = procs.caller.value
           /\ last' = Call("refresh_ahead", procs.caller.value)

\* C29: on a read hit refresh_ahead returns the cached value without waiting
\* for a reload, and starts an asynchronous reload if and only if the
\* entry's remaining TTL is less than ttl x (1 - refresh_threshold), never for
\* an entry with no expiry; on a miss it loads synchronously, sets and
\* returns the value.
RefreshAheadContract == [][HitReturnsAndRefreshes /\ MissLoadsSynchronously]_vars

(***************************************************************************)
(* Restore on startup                                                      *)
(***************************************************************************)
\* the durable entries that are not expired at t
DurableLive(d, t) == {d[f] : f \in {g \in DOMAIN d : ~is_expired(d[g], t)}}

\* the engine holds exactly the entries of the set es, in the store, in the
\* two indices and in total_size_bytes
HoldsExactly(c, nsd, tg, st, es) ==
    /\ {c[i] : i \in 1..Len(c)} = es
    /\ \A e \in es :
          /\ e.namespace \in DOMAIN nsd /\ e.key \in nsd[e.namespace]
          /\ \A t \in e.tags : t \in DOMAIN tg /\ e.key \in tg[t]
    /\ \A n \in DOMAIN nsd : nsd[n] \subseteq {e.key : e \in es}
    /\ \A t \in DOMAIN tg : tg[t] \subseteq {e.key : e \in es}
    /\ st.total_size_bytes = SumSizes(c)

\* C31: an engine constructed with persistence enabled over a durable store
\* holds, in its store, its indices and total_size_bytes, exactly the
\* durable entries that are not expired, and the expired ones are deleted
\* from durable storage.
RestoreOnStartup ==
    [][world'.run # world.run =>
          /\ HoldsExactly(cache', namespaces', tags', stats',
                          DurableLive(disk.files, now))
          /\ {disk'.files[f] : f \in DOMAIN disk'.files} =
                 DurableLive(disk.files, now)]_vars

(***************************************************************************)
(* Persistence failures                                                    *)
(***************************************************************************)
\* what a call leaves in memory, and what it returns
InMemory(r) ==
    [cache |-> r.st.cache, namespaces |-> r.st.namespaces, tags |-> r.st.tags,
     stats |-> r.st.stats, ret |-> r.ret]

\* C32: whether the durable write of set or the durable delete of a removal
\* fails or succeeds, the call returns the same result and leaves the same
\* store, indices and counters; no failure reaches the caller.
PersistenceFailuresInvisible ==
    LET bad == [Engine EXCEPT !.disk.failing = TRUE]
        good == [Engine EXCEPT !.disk.failing = FALSE]
    IN
    /\ \A key \in Keys, namespace \in Namespaces :
          /\ InMemory(delete_op(bad, key, namespace))
                 = InMemory(delete_op(good, key, namespace))
          /\ InMemory(get_op(bad, key, namespace, now))
                 = InMemory(get_op(good, key, namespace, now))
          /\ InMemory(exists_op(bad, key, namespace, now))
                 = InMemory(exists_op(good, key, namespace, now))
          /\ \A value \in PersistValues, ttl \in TtlChoices, tgs \in FaultTagSets :
                InMemory(set_op(bad, key, value, ttl, namespace, tgs, now))
                    = InMemory(set_op(good, key, value, ttl, namespace, tgs, now))
    /\ InMemory(cleanup_expired_op(bad, now)) = InMemory(cleanup_expired_op(good, now))

\* a set whose durable write failed and a delete whose durable delete
\* failed: y is stored without a file, x is deleted and its file remains
PersistenceFailuresWitness ==
    /\ disk.failing
    /\ last = Call("delete", TRUE)
    /\ CacheKeys(cache) = {"n1:y"}
    /\ DOMAIN disk.files = {_hash_key("n1:x")}
    /\ stats.sets = 2 /\ stats.deletes = 1

(***************************************************************************)
(* Pattern invalidation                                                    *)
(***************************************************************************)
\* the stored entries of the namespace whose full key matches *pattern*
Matching(pattern, namespace) ==
    {e \in Entries : e.namespace = namespace /\ fnmatch_contains(e.key, pattern)}

\* the store without the entries of es, the others as they were and in the
\* same order
Without(c, es) == SelectSeq(c, LAMBDA e : e \notin es)

\* C33: invalidate_by_pattern(p, n) removes exactly the entries of namespace
\* n whose full key matches *p*, returns their number, and leaves every
\* other entry, of n and of every other namespace, as it was.
PatternInvalidationScoped ==
    \A pattern \in Patterns, namespace \in Namespaces :
        LET r == invalidate_by_pattern_op(Engine, pattern, namespace)
            es == Matching(pattern, namespace)
        IN /\ r.ret = Cardinality(es)
           /\ r.st.cache = Without(cache, es)
           /\ \A e \in es : Gone(r.st, e.key)
           /\ \A e \in Entries \ es :
                 /\ e.key \in DictGet(r.st.namespaces, e.namespace)
                 /\ \A t \in e.tags : e.key \in DictGet(r.st.tags, t)
           /\ r.st.stats.total_size_bytes = SumSizes(Without(cache, es))

\* x of n1 has been removed by its pattern, x of n2 is still stored
PatternInvalidationWitness ==
    /\ last = Call("invalidate_by_pattern", 1)
    /\ CacheKeys(cache) = {"n2:x"}
    /\ DictGet(namespaces, "n1") = {}
    /\ DictGet(namespaces, "n2") = {"n2:x"}
    /\ stats.sets = 2

(***************************************************************************)
(* Hit rate                                                                *)
(***************************************************************************)
\* the fraction r is the number n
FractionIs(r, n) == r.den > 0 /\ r.num = n * r.den

\* C34: get_hit_rate is 100 x hits / (hits + misses) over the cumulative
\* counters, 0 when no get has been counted, between 0 and 100, and the
\* same before and after a clear.
HitRateContract ==
    LET r == get_hit_rate(stats)
        total == stats.hits + stats.misses
    IN /\ r.den > 0
       /\ IF total = 0 THEN FractionIs(r, 0)
          ELSE r.num * total = 100 * stats.hits * r.den
       /\ 0 <= r.num /\ r.num <= 100 * r.den
       /\ \A namespace \in NamespaceChoices :
             get_hit_rate(clear_op(Engine, namespace).st.stats) = r
       /\ last.op = "get_hit_rate" => last.ret = r

\* 3 hits and 1 miss, then a full clear of the one entry: the rate read is 75
HitRateWitness ==
    /\ stats.hits = 3 /\ stats.misses = 1
    /\ stats.sets = 1 /\ cache = <<>>
    /\ last.op = "get_hit_rate"
    /\ FractionIs(last.ret, 75)

(***************************************************************************)
(* Batch operations                                                        *)
(***************************************************************************)
RECURSIVE AfterGets(_, _, _)
\* the engine after individual gets of the first n keys
AfterGets(s, keys, n) ==
    IF n = 0 THEN s
    ELSE get_op(AfterGets(s, keys, n - 1), keys[n], BatchNamespace, now).st

RECURSIVE AfterSets(_, _, _, _)
AfterSets(s, items, ttl, n) ==
    IF n = 0 THEN s
    ELSE set_op(AfterSets(s, items, ttl, n - 1), items[n][1], items[n][2], ttl,
                BatchNamespace, {}, now).st

RECURSIVE AfterDeletes(_, _, _)
AfterDeletes(s, keys, n) ==
    IF n = 0 THEN s
    ELSE delete_op(AfterDeletes(s, keys, n - 1), keys[n], BatchNamespace).st

\* get_multi maps exactly the requested keys that hold a live entry, each to
\* its value, and leaves the engine as the individual gets do
GetMultiAsGets ==
    \A keys \in KeyLists :
        LET r == get_multi_op(Engine, keys, BatchNamespace, now)
            held == {k \in {keys[i] : i \in 1..Len(keys)} :
                        enabled /\ Live(_make_key(k, BatchNamespace), now)}
        IN /\ DOMAIN r.ret = held
           /\ \A k \in held : r.ret[k] = EntryOf(_make_key(k, BatchNamespace)).value
           /\ r.st = AfterGets(Engine, keys, Len(keys))

SetMultiAsSets ==
    \A items \in ItemLists, ttl \in TtlChoices :
        LET r == set_multi_op(Engine, items, ttl, BatchNamespace, now) IN
        /\ r.ret = Cardinality({i \in 1..Len(items) :
                       set_op(AfterSets(Engine, items, ttl, i - 1), items[i][1],
                              items[i][2], ttl, BatchNamespace, {}, now).ret})
        /\ r.st = AfterSets(Engine, items, ttl, Len(items))

DeleteMultiAsDeletes ==
    \A keys \in KeyLists :
        LET r == delete_multi_op(Engine, keys, BatchNamespace) IN
        /\ r.ret = Cardinality({i \in 1..Len(keys) :
                       delete_op(AfterDeletes(Engine, keys, i - 1), keys[i],
                                 BatchNamespace).ret})
        /\ r.st = AfterDeletes(Engine, keys, Len(keys))

\* C35: set_multi and delete_multi return the number of their individual
\* calls that returned true, get_multi returns exactly the requested keys
\* that hold a live entry with their values, and each leaves the engine as
\* the sequence of individual calls does.
BatchEqualsSequence == GetMultiAsGets /\ SetMultiAsSets /\ DeleteMultiAsDeletes

(***************************************************************************)
(* Overwrite and eviction                                                  *)
(***************************************************************************)
\* C36: a set on a key that is in the store, with the store holding at most
\* max_size entries and the replacement within the memory budget, removes no
\* other key, does not increment evictions and leaves the number of entries
\* as it was.
OverwriteDoesNotEvict ==
    \A key \in Keys, namespace \in Namespaces :
        ( /\ enabled
          /\ _make_key(key, namespace) \in StoreKeys
          /\ Len(cache) <= max_size ) =>
            \A value \in Values, ttl \in TtlChoices, tgs \in TagSets :
                LET full_key == _make_key(key, namespace)
                    r == set_op(Engine, key, value, ttl, namespace, tgs, now)
                IN ( stats.total_size_bytes - EntryOf(full_key).size_bytes
                         + PickleLen(value) <= max_memory_bytes ) =>
                       /\ CacheKeys(r.st.cache) = StoreKeys
                       /\ r.st.stats.evictions = stats.evictions
                       /\ Len(r.st.cache) = Len(cache)

(***************************************************************************)
(* Full keys                                                               *)
(***************************************************************************)
\* the entry that set, get and delete under (namespace, key) reach, if there
\* is one, was stored under that namespace
ReachesOwnEntry(key, namespace) ==
    _make_key(key, namespace) \in StoreKeys =>
        EntryOf(_make_key(key, namespace)).namespace = namespace

\* C37: two different (namespace, key) pairs never have the same full key,
\* so a set or a delete under one pair never reaches the entry stored under
\* another, also when namespaces or keys contain ':'.
FullKeysInjective ==
    \A k1 \in SeparatorKeys, n1 \in SeparatorNamespaces :
        /\ ReachesOwnEntry(k1, n1)
        /\ \A k2 \in SeparatorKeys, n2 \in SeparatorNamespaces :
              <<n1, k1>> # <<n2, k2>> => _make_key(k1, n1) # _make_key(k2, n2)

(***************************************************************************)
(* Expiration counting                                                     *)
(***************************************************************************)
\* the entries that the step removes and that were expired when it did
ExpiredRemovals ==
    {k \in StoreKeys : k \notin CacheKeys(cache') /\ is_expired(EntryOf(k), now)}

\* get, exists and the sweep count every entry they remove as expired, once;
\* no other operation counts an expiration
CountsExpiredRemovals ==
    IF last'.op \in {"get", "exists", "cleanup_expired"}
    THEN stats'.expirations = stats.expirations + Cardinality(ExpiredRemovals)
    ELSE stats'.expirations = stats.expirations

\* C38: every removal of an entry found expired, by get, by exists or by the
\* sweep, increments expirations by exactly one, so expirations is the
\* number of entries removed as expired.
ExpirationCountExact == [][CountsExpiredRemovals]_vars

(***************************************************************************)
(* Disabled engine                                                         *)
(***************************************************************************)
\* C39: on an engine constructed with enabled = False, get returns the
\* default, set, delete and exists return False, clear returns 0, no
\* cleanup thread is started, and after any sequence of operations the store
\* and the indices are empty and every counter is 0.
DisabledEngineInert ==
    ~enabled =>
        /\ procs = EmptyDict
        /\ cache = <<>> /\ namespaces = EmptyDict /\ tags = EmptyDict
        /\ stats = CacheStatistics
        /\ \A key \in Keys, namespace \in Namespaces :
              /\ get_op(Engine, key, namespace, now) = [st |-> Engine, ret |-> DefaultVal]
              /\ delete_op(Engine, key, namespace) = [st |-> Engine, ret |-> FALSE]
              /\ exists_op(Engine, key, namespace, now) = [st |-> Engine, ret |-> FALSE]
              /\ \A value \in Values, ttl \in TtlChoices, tgs \in TagSets :
                    set_op(Engine, key, value, ttl, namespace, tgs, now)
                        = [st |-> Engine, ret |-> FALSE]
        /\ \A namespace \in NamespaceChoices :
              clear_op(Engine, namespace) = [st |-> Engine, ret |-> 0]

\* a disabled engine after a set, a get and a delete
DisabledEngineWitness ==
    /\ ~enabled
    /\ calls = MaxCalls
    /\ last = Call("delete", FALSE)
    /\ now > StartTime

(***************************************************************************)
(* Cache factory                                                           *)
(***************************************************************************)
\* C40: for every cache_type, all calls of CacheFactory.get_cache return the
\* same engine instance, the one registered for the type, and at most one
\* engine is constructed for the type.
OneEnginePerType ==
    \A ct \in CacheTypes :
        /\ world.constructed[ct] <= 1
        /\ \A ret \in world.returned[ct] :
              /\ ret # None
              /\ ct \in DOMAIN world._instances
              /\ ret = Some(world._instances[ct])

====
